---- MODULE Spec2Model ----
(***************************************************************************)
(* Veilborn rules engine (src/engine/rules.py, src/engine/models.py) with  *)
(* the starter card catalog (src/engine/cards.py) and a caller that runs   *)
(* the phase operations in round order (src/simulate_match.py,             *)
(* src/tests/test_rules.py).                                               *)
(*                                                                         *)
(* Conventions.                                                            *)
(*  - A python dict keeps insertion order, and Board.all_cards /           *)
(*    Board.cards_for iterate in that order; the board is therefore a      *)
(*    sequence of BoardCard records whose keys (col, row, owner) are       *)
(*    distinct, not a function.                                            *)
(*  - The float multipliers 1.5 / 1.0 / 0.75 are kept as quarters          *)
(*    (6 / 4 / 3); ability values are kept as a fraction num/den.          *)
(*    int(x * m) on the non-negative values met here is (x * num) \div den.*)
(*  - A card's display name stands for its definition: cards.py gives the  *)
(*    twelve definitions twelve distinct names.                            *)
(***************************************************************************)
EXTENDS Integers, Sequences, FiniteSets, TLC

(***************************************************************************)
(* Bounds of the model (not program constants).                            *)
(***************************************************************************)
\* longest placement batch a player submits
MaxBatch == 1
\* batches name columns 0..MaxPlaceCol
MaxPlaceCol == 0

(***************************************************************************)
(* Program constants.                                                      *)
(***************************************************************************)
FLANKING_THRESHOLD == 3
FLANKING_BONUS == 2
COLUMN_PRESSURE_BONUS == 1
MANA_PER_TURN == 1
MANA_CAP == 8
VEIL_SURGE_MAX == 3
ROUNDS_PER_MATCH == 5
WIN_SCORE == 3
DORMANCY_LOSS_THRESHOLD == 3
\* phase_draw's default draw_to
DRAW_TO == 5
\* PlayerState.mana default
START_MANA == 3
\* simulate_match's default max_rounds
max_rounds == 5
\* phase_cleanup's flat survival bonus
SURVIVAL_XP == 10
\* CardInstance.level_up's cap
MAX_LEVEL == 5
\* Board columns are 0..LAST_COL
LAST_COL == 3

ONE == 1
TWO == 2
Players == {ONE, TWO}
\* the None of an Optional[Player]
None == 0
\* the None of an Optional[str]
NoText == "None"

FRONT == "front"
BACK == "back"
Rows == {FRONT, BACK}

DRAW == "draw"
MANA == "mana"
PLACEMENT == "placement"
REVEAL == "reveal"
RESOLVE == "resolve"
CLEANUP == "cleanup"
MATCH_OVER == "match_over"
GamePhase == {DRAW, MANA, PLACEMENT, REVEAL, RESOLVE, CLEANUP, MATCH_OVER}

SPECTER == "Specter"
REVENANT == "Revenant"
PHANTOM == "Phantom"
BEHEMOTH == "Behemoth"
CardType == {SPECTER, REVENANT, PHANTOM, BEHEMOTH}

\* TYPE_MATCHUP in quarters: 6 is 1.5, 4 is 1.0, 3 is 0.75
TYPE_MATCHUP ==
  [a \in CardType |-> [d \in CardType |->
     CASE a = SPECTER  /\ d = REVENANT -> 3
       [] a = SPECTER  /\ d = BEHEMOTH -> 6
       [] a = REVENANT /\ d = SPECTER  -> 6
       [] a = REVENANT /\ d = PHANTOM  -> 3
       [] a = PHANTOM  /\ d = REVENANT -> 6
       [] a = PHANTOM  /\ d = BEHEMOTH -> 3
       [] a = BEHEMOTH /\ d = SPECTER  -> 3
       [] a = BEHEMOTH /\ d = PHANTOM  -> 6
       [] OTHER -> 4]]

\* int(x * m) for a multiplier m kept in quarters
TimesMatchup(x, m4) == (x * m4) \div 4

(***************************************************************************)
(* Card catalog.                                                           *)
(***************************************************************************)
NoAbility == [trigger |-> "none", effect |-> "none", num |-> 0, den |-> 1]

Ability(t, e, n, d) == [trigger |-> t, effect |-> e, num |-> n, den |-> d]

Card(n, t, a, d, s, m, ab) ==
  [name |-> n, card_type |-> t, base_attack |-> a, base_defense |-> d,
   speed |-> s, mana_cost |-> m, ability |-> ab]

CardIds == {"spec_001", "spec_002", "spec_003", "rev_001", "rev_002", "rev_003",
            "phan_001", "phan_002", "phan_003", "beh_001", "beh_002", "beh_003"}

CARD_REGISTRY ==
  [id \in CardIds |->
     CASE id = "spec_001" -> Card("Morthex the Hollow", SPECTER, 6, 8, 8, 3,
                                  Ability("on_attack", "lifesteal", 3, 10))
       [] id = "spec_002" -> Card("Veyra Silentblade", SPECTER, 9, 6, 10, 4,
                                  Ability("passive", "ghost_step", 1, 1))
       [] id = "spec_003" -> Card("Ashling", SPECTER, 5, 5, 7, 2, NoAbility)
       [] id = "rev_001"  -> Card("Gravaul the Unyielding", REVENANT, 7, 14, 3, 4,
                                  Ability("passive", "armor", 2, 1))
       [] id = "rev_002"  -> Card("Serath the Unburied", REVENANT, 8, 10, 4, 3,
                                  Ability("on_survive_round", "last_stand", 3, 1))
       [] id = "rev_003"  -> Card("Duskwarden", REVENANT, 6, 12, 2, 3, NoAbility)
       [] id = "phan_001" -> Card("Mirrex", PHANTOM, 7, 7, 6, 5,
                                  Ability("on_attack", "thorns", 1, 2))
       [] id = "phan_002" -> Card("The Lurking Shade", PHANTOM, 5, 6, 5, 2, NoAbility)
       [] id = "phan_003" -> Card("Veilborn Trickster", PHANTOM, 8, 5, 9, 4,
                                  Ability("passive", "last_stand", 4, 1))
       [] id = "beh_001"  -> Card("Vorath the Consuming", BEHEMOTH, 12, 18, 1, 7,
                                  Ability("on_death", "veil_echo", 1, 2))
       [] id = "beh_002"  -> Card("Bonecrag", BEHEMOTH, 9, 14, 2, 5, NoAbility)
       [] id = "beh_003"  -> Card("The Pale Hunger", BEHEMOTH, 10, 12, 3, 6,
                                  Ability("on_attack", "lifesteal", 4, 10))]

\* CardDefinition.xp_threshold
xp_threshold(level) ==
  CASE level = 1 -> 100
    [] level = 2 -> 250
    [] level = 3 -> 500
    [] level = 4 -> 1000
    [] OTHER -> 9999

Range(s) == { s[i] : i \in 1..Len(s) }

(***************************************************************************)
(* Decks the match starts from: each player's deck is one of these lists   *)
(* of card ids (simulate_match builds ten-card lists of the same catalog;  *)
(* test_full_round_lifecycle loads three-card lists). Both players can     *)
(* hold the same definition, as in build_starter_deck.                     *)
(***************************************************************************)
Decks ==
  [p \in {1, 2} |->
     IF p = 1 THEN { <<"spec_003", "rev_003">> }
     ELSE { <<"spec_003", "rev_003">>, <<"spec_003", "beh_002">> }]

\* instance ids: 10 * owner + position in the deck list
InstanceId(p, i) == 10 * p + i

NewInstance(defid, p) ==
  [definition |-> defid, owner |-> p, level |-> 1, xp |-> 0,
   consecutive_losses |-> 0, is_dormant |-> FALSE]

VARIABLES
  phase,            \* GameState.phase
  current_round,    \* GameState.current_round
  match_winner,     \* GameState.match_winner
  round_history,    \* GameState.round_history
  board,            \* GameState.board.cells, in insertion order
  hand,             \* PlayerState.hand, per player
  deck,             \* PlayerState.deck, per player
  mana,             \* PlayerState.mana, per player
  veil_surge_used,  \* PlayerState.veil_surge_used, per player
  score,            \* PlayerState.score, per player
  insts,            \* every CardInstance of the match, by instance id
  pc,               \* the caller's position in the round
  placed,           \* per player: "no" batch yet this round, an "empty" one, or "cards"
  called,           \* the operation that produced this state, and its player
  trace             \* what the last Resolve did, step by step

vars == <<phase, current_round, match_winner, round_history, board, hand, deck,
          mana, veil_surge_used, score, insts, pc, placed, called, trace>>

engine == <<phase, current_round, match_winner, round_history, board, hand, deck,
            mana, veil_surge_used, score, insts>>

Opponent(p) == IF p = ONE THEN TWO ELSE ONE

NoTrace == [board_in |-> <<>>, order |-> <<>>, steps |-> <<>>]

Call(op, p) == [op |-> op, player |-> p]

(***************************************************************************)
(* Derived card statistics.                                                *)
(***************************************************************************)
Def(I, id) == CARD_REGISTRY[I[id].definition]

\* CardInstance.attack
Attack(I, id) == Def(I, id).base_attack + (I[id].level - 1)

\* CardInstance.max_defense
MaxDefense(I, id) == Def(I, id).base_defense + (I[id].level - 1) * 2

\* BoardCard.is_alive
IsAlive(c) == c.current_hp > 0

\* BoardCard.effective_attack
EffectiveAttack(I, c) == Attack(I, c.instance) + c.position_bonus_attack

(***************************************************************************)
(* Board: an insertion-ordered map keyed by (col, row, owner).             *)
(***************************************************************************)
Key(c) == <<c.col, c.row, c.owner>>

\* index of the card at a key, 0 when the cell is empty
IndexAt(b, col, row, owner) ==
  IF \E i \in 1..Len(b) : Key(b[i]) = <<col, row, owner>>
    THEN CHOOSE i \in 1..Len(b) : Key(b[i]) = <<col, row, owner>>
    ELSE 0

Occupied(b, col, row, owner) == IndexAt(b, col, row, owner) # 0

\* Board.cards_for
CardsFor(b, owner) == LET Mine(c) == c.owner = owner IN SelectSeq(b, Mine)

\* Board.front_row_for
FrontRowFor(b, owner) ==
  LET Mine(c) == c.owner = owner /\ c.row = FRONT IN SelectSeq(b, Mine)

\* Board.remove: pop the key, keeping the order of the rest
Remove(b, col, row, owner) ==
  LET Other(c) == Key(c) # <<col, row, owner>> IN SelectSeq(b, Other)

RECURSIVE SumHp(_)
SumHp(s) == IF s = <<>> THEN 0 ELSE Head(s).current_hp + SumHp(Tail(s))

\* the element of a one-element set: { F(x) : x \in {e} } computes e once
Only(S) == CHOOSE x \in S : TRUE

Min(a, b) == IF a < b THEN a ELSE b
Max(a, b) == IF a > b THEN a ELSE b
Abs(x) == IF x < 0 THEN -x ELSE x

(***************************************************************************)
(* Position bonuses (rules.py, _apply_flanking and _apply_column_pressure, *)
(* and the Veil Collapse loop of phase_resolve)                            *)
(***************************************************************************)
FrontCols(b, p) == { c.col : c \in Range(FrontRowFor(b, p)) }

\* mutant of Flanks: the opponent's front row is not counted
FlanksWideOpponent(b, p) == Cardinality(FrontCols(b, p)) >= FLANKING_THRESHOLD

\* the test of _apply_flanking for one player
Flanks(b, p) ==
  /\ Cardinality(FrontCols(b, p)) >= FLANKING_THRESHOLD
  /\ Cardinality(FrontCols(b, Opponent(p))) <= 2

\* _apply_flanking: the board with the bonus added
ApplyFlanking(b) ==
  [i \in 1..Len(b) |->
     IF b[i].row = FRONT /\ Flanks(b, b[i].owner)
       THEN [b[i] EXCEPT !.position_bonus_attack = @ + FLANKING_BONUS]
       ELSE b[i]]

\* _apply_flanking: its return value (the loop runs ONE then TWO, the later wins)
FlankingPlayer(b) ==
  IF Flanks(b, TWO) THEN TWO ELSE IF Flanks(b, ONE) THEN ONE ELSE None

\* mutant of ApplyColumnPressure: a back-row card is pressed forward too
ApplyColumnPressureFromBack(I, b) ==
  [i \in 1..Len(b) |->
     LET j == IndexAt(b, b[i].col, FRONT, Opponent(b[i].owner)) IN
     IF /\ j # 0
        /\ TYPE_MATCHUP[Def(I, b[i].instance).card_type][Def(I, b[j].instance).card_type] = 6
       THEN [b[i] EXCEPT !.position_bonus_attack = @ + COLUMN_PRESSURE_BONUS]
       ELSE b[i]]

\* _apply_column_pressure
ApplyColumnPressure(I, b) ==
  [i \in 1..Len(b) |->
     LET j == IndexAt(b, b[i].col, FRONT, Opponent(b[i].owner)) IN
     IF /\ b[i].row = FRONT
        /\ j # 0
        /\ TYPE_MATCHUP[Def(I, b[i].instance).card_type][Def(I, b[j].instance).card_type] = 6
       THEN [b[i] EXCEPT !.position_bonus_attack = @ + COLUMN_PRESSURE_BONUS]
       ELSE b[i]]

\* phase_resolve step 2
ApplyVeilCollapse(I, b, veil_collapse) ==
  [i \in 1..Len(b) |->
     IF veil_collapse
       THEN [b[i] EXCEPT !.position_bonus_attack = @ + (Attack(I, b[i].instance) \div 2)]
       ELSE b[i]]

PositionBonuses(I, b, veil_collapse) ==
  ApplyVeilCollapse(I, ApplyColumnPressure(I, ApplyFlanking(b)), veil_collapse)

(***************************************************************************)
(* Attack order: sorted(all_cards, key = (speed, effective_attack),        *)
(* reverse = True). The sort is stable: cards with equal keys keep their   *)
(* insertion order.                                                        *)
(***************************************************************************)
\* mutant of SortsBefore: ascending instead of descending
SortsBeforeAscending(I, x, y) ==
  LET sx == Def(I, x.instance).speed
      sy == Def(I, y.instance).speed
  IN  sx < sy \/ (sx = sy /\ EffectiveAttack(I, x) < EffectiveAttack(I, y))

\* x sorts strictly before y
SortsBefore(I, x, y) ==
  LET sx == Def(I, x.instance).speed
      sy == Def(I, y.instance).speed
  IN  sx > sy \/ (sx = sy /\ EffectiveAttack(I, x) > EffectiveAttack(I, y))

RECURSIVE InsertOrdered(_, _, _, _)
InsertOrdered(I, b, s, j) ==
  IF s = <<>> THEN <<j>>
  ELSE IF SortsBefore(I, b[j], b[Head(s)]) THEN <<j>> \o s
  ELSE <<Head(s)>> \o InsertOrdered(I, b, Tail(s), j)

RECURSIVE SortPrefix(_, _, _)
SortPrefix(I, b, k) ==
  IF k = 0 THEN <<>> ELSE InsertOrdered(I, b, SortPrefix(I, b, k - 1), k)

\* indices of the board in attack order
AttackOrder(I, b) == SortPrefix(I, b, Len(b))

(***************************************************************************)
(* Targeting (rules.py, _find_target)                                      *)
(***************************************************************************)
\* mutant of IsTargetable: only a live front-row card shields the back row
IsTargetableBehindDead(b, c) ==
  c.row = BACK =>
    ~\E i \in 1..Len(b) : Key(b[i]) = <<c.col, FRONT, c.owner>> /\ IsAlive(b[i])

\* is_targetable: a back-row card is shielded while its front cell holds a card
IsTargetable(b, c) == c.row = BACK => ~Occupied(b, c.col, FRONT, c.owner)

\* enemies.sort(key = (distance, current_hp)): x sorts strictly before y
NearerOrWeaker(col, x, y) ==
  \/ Abs(x.col - col) < Abs(y.col - col)
  \/ Abs(x.col - col) = Abs(y.col - col) /\ x.current_hp < y.current_hp

\* mutant of FindTarget: without a same-column target the weakest enemy is
\* taken, however far
FindTargetWeakest(b, a) ==
  LET opp == Opponent(b[a].owner)
      direct == IndexAt(b, b[a].col, FRONT, opp)
      back_direct == IndexAt(b, b[a].col, BACK, opp)
      enemies == { i \in 1..Len(b) :
                     b[i].owner = opp /\ IsAlive(b[i]) /\ IsTargetable(b, b[i]) }
      best == { i \in enemies : \A j \in enemies : b[i].current_hp <= b[j].current_hp }
  IN  IF direct # 0 /\ IsAlive(b[direct]) /\ IsTargetable(b, b[direct]) THEN direct
      ELSE IF back_direct # 0 /\ IsAlive(b[back_direct]) /\ IsTargetable(b, b[back_direct])
        THEN back_direct
      ELSE IF enemies = {} THEN 0
      ELSE CHOOSE i \in best : \A j \in best : i <= j

\* index of the target of the attacker at index a, 0 for no target
FindTarget(b, a) ==
  LET opp == Opponent(b[a].owner)
      direct == IndexAt(b, b[a].col, FRONT, opp)
      back_direct == IndexAt(b, b[a].col, BACK, opp)
      enemies == { i \in 1..Len(b) :
                     b[i].owner = opp /\ IsAlive(b[i]) /\ IsTargetable(b, b[i]) }
      best == { i \in enemies : \A j \in enemies : ~NearerOrWeaker(b[a].col, b[j], b[i]) }
  IN  IF direct # 0 /\ IsAlive(b[direct]) /\ IsTargetable(b, b[direct]) THEN direct
      ELSE IF back_direct # 0 /\ IsAlive(b[back_direct]) /\ IsTargetable(b, b[back_direct])
        THEN back_direct
      ELSE IF enemies = {} THEN 0
      ELSE CHOOSE i \in best : \A j \in best : i <= j

(***************************************************************************)
(* One attack (rules.py, the body of phase_resolve's loop)                 *)
(***************************************************************************)
HasAbility(d, trigger, effect) ==
  d.ability.trigger = trigger /\ d.ability.effect = effect

\* mutant of Damage: the defender's armor is not subtracted
DamageThroughArmor(raw, m4, defender) == TimesMatchup(raw, m4)

\* damage of one hit: int(raw * multiplier), less the defender's armor
Damage(raw, m4, defender) ==
  LET damage == TimesMatchup(raw, m4) IN
  IF defender.ability.effect = "armor"
    THEN Max(0, damage - (defender.ability.num \div defender.ability.den))
    ELSE damage

\* int(damage * value) of the attacker's lifesteal
Heal(damage, attacker) == (damage * attacker.ability.num) \div attacker.ability.den

\* mutant of LifestealHp: the healing is not capped
LifestealHpUncapped(I, c, heal) == c.current_hp + heal

\* the HP of lifesteal attacker c once it has healed: capped at max_defense
LifestealHp(I, c, heal) == Min(c.current_hp + heal, MaxDefense(I, c.instance))

\* mutant of EchoDamage: the echo returns the defender's whole attack
EchoDamageWhole(I, c) == Attack(I, c.instance)

\* echo_damage of a destroyed VEIL_ECHO defender c: target.instance.attack // 2
EchoDamage(I, c) == Attack(I, c.instance) \div 2

\* the attacker at index a hits the target at index t; acc is the loop's state
Hit(I, acc, a, t) ==
  LET b == acc.board
      adef == Def(I, b[a].instance)
      tdef == Def(I, b[t].instance)
      multiplier == TYPE_MATCHUP[adef.card_type][tdef.card_type]
      raw == EffectiveAttack(I, b[a])
      damage == Damage(raw, multiplier, tdef)
      target_hp == b[t].current_hp - damage
      lifesteal == HasAbility(adef, "on_attack", "lifesteal")
      heal == Heal(damage, adef)
      healed_hp == IF lifesteal THEN LifestealHp(I, b[a], heal) ELSE b[a].current_hp
      destroyed == ~(target_hp > 0)
      echo == destroyed /\ HasAbility(tdef, "on_death", "veil_echo")
      echo_damage == EchoDamage(I, b[t])
      attacker_hp == IF echo THEN healed_hp - echo_damage ELSE healed_hp
      after == [b EXCEPT ![t].current_hp = target_hp, ![a].current_hp = attacker_hp]
      event == [order |-> Len(acc.events) + 1,
                attacker_name |-> adef.name,
                attacker_type |-> adef.card_type,
                attacker_level |-> I[b[a].instance].level,
                attacker_owner |-> b[a].owner,
                defender_name |-> tdef.name,
                defender_type |-> tdef.card_type,
                defender_level |-> I[b[t].instance].level,
                defender_owner |-> b[t].owner,
                type_multiplier |-> multiplier,
                raw_attack |-> raw,
                damage_dealt |-> damage,
                position_bonus |-> b[a].position_bonus_attack,
                defender_destroyed |-> destroyed,
                ability_triggered |-> IF echo THEN "Veil Echo"
                                      ELSE IF lifesteal THEN "Lifesteal" ELSE NoText,
                ability_effect_description |->
                  IF echo THEN <<tdef.name, "death echo", echo_damage>>
                  ELSE IF lifesteal THEN <<adef.name, "drained", heal>> ELSE <<>>]
  IN  [board |-> after,
       events |-> Append(acc.events, event),
       dead |-> IF destroyed THEN Append(acc.dead, Key(b[t])) ELSE acc.dead,
       steps |-> Append(acc.steps, [attacker |-> a, target |-> t, before |-> b,
                                    after |-> after])]

\* a live attacker for which _find_target returned None: no event, no change
NoTarget(a, b) == [attacker |-> a, target |-> 0, before |-> b, after |-> b]

\* the attack loop over the order computed once, from its k-th entry on. steps
\* keeps every call of _find_target: the attacker, the target found (0 for
\* None), the board the call saw and the board the loop body left.
RECURSIVE AttackLoop(_, _, _, _)
AttackLoop(I, order, k, acc) ==
  IF k > Len(order) THEN acc
  ELSE LET a == order[k]
           t == FindTarget(acc.board, a)
       IN  IF ~IsAlive(acc.board[a])
             THEN AttackLoop(I, order, k + 1, acc)
           ELSE IF t = 0
             THEN Only({ AttackLoop(I, order, k + 1, idle) :
                           idle \in {[acc EXCEPT !.steps = Append(@, NoTarget(a, acc.board))]} })
             ELSE Only({ AttackLoop(I, order, k + 1, hit) : hit \in {Hit(I, acc, a, t)} })

\* phase_resolve step 5: board.remove for every entry of dead_cards
RECURSIVE RemoveAll(_, _)
RemoveAll(b, dead) ==
  IF dead = <<>> THEN b
  ELSE RemoveAll(Remove(b, Head(dead)[1], Head(dead)[2], Head(dead)[3]), Tail(dead))

(***************************************************************************)
(* Scoring (rules.py, phase_resolve steps 6 and 7)                         *)
(***************************************************************************)
\* mutant of RoundOutcome: a full wipe is scored by HP totals like any round
RoundOutcomeByTotalsOnly(b) ==
  LET p1_def == SumHp(CardsFor(b, ONE))
      p2_def == SumHp(CardsFor(b, TWO))
  IN  IF p1_def > p2_def THEN [round_winner |-> ONE, points |-> 1]
      ELSE IF p2_def > p1_def THEN [round_winner |-> TWO, points |-> 1]
      ELSE [round_winner |-> None, points |-> 0]

\* round winner and points from the board after removal
RoundOutcome(b) ==
  LET p1_def == SumHp(CardsFor(b, ONE))
      p2_def == SumHp(CardsFor(b, TWO))
      p1_wiped == Len(CardsFor(b, ONE)) = 0
      p2_wiped == Len(CardsFor(b, TWO)) = 0
  IN  IF p1_wiped /\ p2_wiped THEN [round_winner |-> None, points |-> 0]
      ELSE IF p2_wiped /\ ~p1_wiped THEN [round_winner |-> ONE, points |-> 2]
      ELSE IF p1_wiped /\ ~p2_wiped THEN [round_winner |-> TWO, points |-> 2]
      ELSE IF p1_def > p2_def THEN [round_winner |-> ONE, points |-> 1]
      ELSE IF p2_def > p1_def THEN [round_winner |-> TWO, points |-> 1]
      ELSE [round_winner |-> None, points |-> 0]

\* mutant of AddPoints: the points go to the round winner's opponent
AddPointsToLoser(sc, outcome) ==
  IF outcome.round_winner # None
    THEN [sc EXCEPT ![Opponent(outcome.round_winner)] = @ + outcome.points]
    ELSE sc

\* scores after the round's points
AddPoints(sc, outcome) ==
  IF outcome.round_winner # None
    THEN [sc EXCEPT ![outcome.round_winner] = @ + outcome.points]
    ELSE sc

\* mutant of MatchWinner: a score wins only once it exceeds WIN_SCORE
MatchWinnerAboveWinScore(sc, round) ==
  IF sc[ONE] > WIN_SCORE THEN ONE
  ELSE IF sc[TWO] > WIN_SCORE THEN TWO
  ELSE IF round >= ROUNDS_PER_MATCH
    THEN (IF sc[ONE] > sc[TWO] THEN ONE
          ELSE IF sc[TWO] > sc[ONE] THEN TWO
          ELSE None)
  ELSE None

\* match winner from the scores after the round's points
MatchWinner(sc, round) ==
  IF sc[ONE] >= WIN_SCORE THEN ONE
  ELSE IF sc[TWO] >= WIN_SCORE THEN TWO
  ELSE IF round >= ROUNDS_PER_MATCH
    THEN (IF sc[ONE] > sc[TWO] THEN ONE
          ELSE IF sc[TWO] > sc[ONE] THEN TWO
          ELSE None)
  ELSE None

\* mutant of PhaseAfterResolve: the match-over branch is lost
PhaseAfterResolveAlwaysCleanup(winner) == CLEANUP

\* the phase phase_resolve leaves
PhaseAfterResolve(winner) == IF winner # None THEN MATCH_OVER ELSE CLEANUP

\* mutant of MatchScore: the two scores change places
MatchScoreSwapped(sc) == [player_1 |-> sc[TWO], player_2 |-> sc[ONE]]

\* the match_score dict of a RoundResult
MatchScore(sc) == [player_1 |-> sc[ONE], player_2 |-> sc[TWO]]

(***************************************************************************)
(* phase_resolve as a function of what it reads: the instances, the board, *)
(* the scores and the round number                                         *)
(***************************************************************************)
Resolve(I, b, sc, round) ==
  LET veil_collapse == round = ROUNDS_PER_MATCH
      flanking_player == FlankingPlayer(b)
      board_in == PositionBonuses(I, b, veil_collapse)
      order == AttackOrder(I, board_in)
      fought == AttackLoop(I, order, 1,
                  [board |-> board_in, events |-> <<>>, dead |-> <<>>, steps |-> <<>>])
      left == RemoveAll(fought.board, fought.dead)
      outcome == RoundOutcome(left)
      new_score == AddPoints(sc, outcome)
      winner == MatchWinner(new_score, round)
  IN  [board |-> left,
       score |-> new_score,
       match_winner |-> winner,
       phase |-> PhaseAfterResolve(winner),
       result |-> [round_number |-> round,
                   events |-> fought.events,
                   veil_collapse |-> veil_collapse,
                   p1_surviving_defense |-> SumHp(CardsFor(left, ONE)),
                   p2_surviving_defense |-> SumHp(CardsFor(left, TWO)),
                   round_winner |-> outcome.round_winner,
                   round_points_awarded |-> outcome.points,
                   match_score |-> MatchScore(new_score),
                   match_winner |-> winner,
                   flanking_applied |-> flanking_player],
       trace |-> [board_in |-> board_in, order |-> order, steps |-> fought.steps]]

(***************************************************************************)
(* Placement (rules.py, validate_placement and apply_placement).           *)
(* A batch is a sequence of entries [card_instance_id, col, row].          *)
(***************************************************************************)
\* _valid_rows_for
ValidRowsFor(p) == {FRONT, BACK}

\* the per-entry loop of validate_placement from entry k on: the first error met
RECURSIVE ValidateEntries(_, _, _, _, _, _, _, _)
ValidateEntries(I, b, h, p, batch, k, placed_cells, total_mana) ==
  IF k > Len(batch) THEN [error |-> "", total_mana |-> total_mana]
  ELSE LET e == batch[k] IN
       IF e.card_instance_id \notin Range(h)
         THEN [error |-> "not in hand", total_mana |-> total_mana]
       ELSE IF I[e.card_instance_id].is_dormant
         THEN [error |-> "is dormant", total_mana |-> total_mana]
       ELSE IF e.row \notin ValidRowsFor(p)
         THEN [error |-> "cannot place in row", total_mana |-> total_mana]
       ELSE IF ~(0 <= e.col /\ e.col <= LAST_COL)
         THEN [error |-> "column out of range", total_mana |-> total_mana]
       ELSE IF <<e.col, e.row>> \in placed_cells
         THEN [error |-> "duplicate cell", total_mana |-> total_mana]
       ELSE IF Occupied(b, e.col, e.row, p)
         THEN [error |-> "already occupied", total_mana |-> total_mana]
       ELSE ValidateEntries(I, b, h, p, batch, k + 1,
                            placed_cells \cup {<<e.col, e.row>>},
                            total_mana + Def(I, e.card_instance_id).mana_cost)

\* mutant of ValidatePlacement: an overdraft within the limit passes even when
\* the Veil Surge has been used
ValidatePlacementSurgeAgain(I, b, h, available_mana, surge_used, p, batch) ==
  LET v == ValidateEntries(I, b, h, p, batch, 1, {}, 0) IN
  IF v.error # "" THEN v.error
  ELSE IF /\ v.total_mana > available_mana
          /\ v.total_mana - available_mana > VEIL_SURGE_MAX
    THEN "insufficient mana"
  ELSE ""

\* mutant of ValidatePlacement: a dormant card is not an error
ValidatePlacementOfDormant(I, b, h, available_mana, surge_used, p, batch) ==
  LET v == ValidateEntries(I, b, h, p, batch, 1, {}, 0) IN
  IF v.error \notin {"", "is dormant"} THEN v.error
  ELSE IF /\ v.total_mana > available_mana
          /\ (surge_used \/ v.total_mana - available_mana > VEIL_SURGE_MAX)
    THEN "insufficient mana"
  ELSE ""

\* mutant of ValidatePlacement: an occupied target cell is not an error
ValidatePlacementOverOccupied(I, b, h, available_mana, surge_used, p, batch) ==
  LET v == ValidateEntries(I, b, h, p, batch, 1, {}, 0) IN
  IF v.error \notin {"", "already occupied"} THEN v.error
  ELSE IF /\ v.total_mana > available_mana
          /\ (surge_used \/ v.total_mana - available_mana > VEIL_SURGE_MAX)
    THEN "insufficient mana"
  ELSE ""

\* validate_placement: "" when the batch is valid, else the error
ValidatePlacement(I, b, h, available_mana, surge_used, p, batch) ==
  LET v == ValidateEntries(I, b, h, p, batch, 1, {}, 0) IN
  IF v.error # "" THEN v.error
  ELSE IF /\ v.total_mana > available_mana
          /\ (surge_used \/ v.total_mana - available_mana > VEIL_SURGE_MAX)
    THEN "insufficient mana"
  ELSE ""

\* BoardCard(...) of apply_placement
NewBoardCard(I, id, col, row, p) ==
  [instance |-> id, current_hp |-> MaxDefense(I, id), col |-> col, row |-> row,
   owner |-> p, face_down |-> TRUE, has_attacked |-> FALSE,
   position_bonus_attack |-> 0]

\* mutant of RemoveFromHand: the placed card is not taken out of the hand
RemoveFromHandKept(h, id) == h

\* list.remove of the one entry equal to id
RemoveFromHand(h, id) == LET Other(x) == x # id IN SelectSeq(h, Other)

\* mutant of PlaceEntries: Board.place assigns the cell without looking, so
\* the new card replaces the occupant
RECURSIVE PlaceEntriesOverOccupant(_, _, _, _, _, _, _)
PlaceEntriesOverOccupant(I, b, h, p, batch, k, total_mana) ==
  IF k > Len(batch)
    THEN [board |-> b, hand |-> h, total_mana |-> total_mana, failed |-> FALSE]
  ELSE LET e == batch[k]
           card == NewBoardCard(I, e.card_instance_id, e.col, e.row, p)
       IN  IF e.card_instance_id \notin Range(h)
             THEN [board |-> b, hand |-> h, total_mana |-> total_mana, failed |-> TRUE]
             ELSE PlaceEntriesOverOccupant(I,
                    IF Occupied(b, e.col, e.row, p)
                      THEN [b EXCEPT ![IndexAt(b, e.col, e.row, p)] = card]
                      ELSE Append(b, card),
                    RemoveFromHand(h, e.card_instance_id), p, batch, k + 1,
                    total_mana + Def(I, e.card_instance_id).mana_cost)

\* the loop of apply_placement from entry k on. next(...) raises when the card
\* is not in the hand and Board.place raises when the cell is occupied: the
\* loop stops there (failed) with the entries before it applied.
RECURSIVE PlaceEntries(_, _, _, _, _, _, _)
PlaceEntries(I, b, h, p, batch, k, total_mana) ==
  IF k > Len(batch)
    THEN [board |-> b, hand |-> h, total_mana |-> total_mana, failed |-> FALSE]
  ELSE LET e == batch[k] IN
       IF \/ e.card_instance_id \notin Range(h)
          \/ Occupied(b, e.col, e.row, p)
         THEN [board |-> b, hand |-> h, total_mana |-> total_mana, failed |-> TRUE]
         ELSE PlaceEntries(I,
                Append(b, NewBoardCard(I, e.card_instance_id, e.col, e.row, p)),
                RemoveFromHand(h, e.card_instance_id), p, batch, k + 1,
                total_mana + Def(I, e.card_instance_id).mana_cost)

\* mutant of ManaAfter: an overdraft leaves the whole cost as debt
ManaAfterDebtOfCost(m, total_mana) == IF total_mana > m THEN -total_mana ELSE m - total_mana

\* mana after a batch of the given total cost
ManaAfter(m, total_mana) == IF total_mana > m THEN -(total_mana - m) ELSE m - total_mana

\* mutant of ApplyPlacementTo: an overdraft does not mark the Veil Surge as used
ApplyPlacementToUnmarkedSurge(I, b, h, m, surge_used, p, batch) ==
  LET r == PlaceEntries(I, b, h, p, batch, 1, 0) IN
  [board |-> r.board,
   hand |-> r.hand,
   mana |-> IF r.failed THEN m ELSE ManaAfter(m, r.total_mana),
   veil_surge_used |-> surge_used,
   failed |-> r.failed]

\* mutant of ApplyPlacementTo: cells are keyed by (col, row) without the owner,
\* so a placed card replaces the opponent's card of the same column and row
ApplyPlacementToUnownedCells(I, b, h, m, surge_used, p, batch) ==
  LET Kept(c) == c.owner = p \/ \A k \in 1..Len(batch) :
                                  <<batch[k].col, batch[k].row>> # <<c.col, c.row>>
      r == PlaceEntries(I, SelectSeq(b, Kept), h, p, batch, 1, 0)
  IN  [board |-> r.board,
       hand |-> r.hand,
       mana |-> IF r.failed THEN m ELSE ManaAfter(m, r.total_mana),
       veil_surge_used |-> IF ~r.failed /\ r.total_mana > m THEN TRUE ELSE surge_used,
       failed |-> r.failed]

\* apply_placement as a function of what it reads
ApplyPlacementTo(I, b, h, m, surge_used, p, batch) ==
  LET r == PlaceEntries(I, b, h, p, batch, 1, 0) IN
  [board |-> r.board,
   hand |-> r.hand,
   mana |-> IF r.failed THEN m ELSE ManaAfter(m, r.total_mana),
   veil_surge_used |-> IF ~r.failed /\ r.total_mana > m THEN TRUE ELSE surge_used,
   failed |-> r.failed]

(***************************************************************************)
(* Draw (rules.py, phase_draw): python's deck[:needed] and deck[needed:]   *)
(***************************************************************************)
\* where a python slice bound n cuts a list
SliceCut(s, n) == IF n >= 0 THEN Min(n, Len(s)) ELSE Max(Len(s) + n, 0)

\* s[:n]
SliceTo(s, n) == SubSeq(s, 1, SliceCut(s, n))

\* s[n:]
SliceFrom(s, n) == SubSeq(s, SliceCut(s, n) + 1, Len(s))

\* mutant of DrawnHand: one card more than draw_to allows
DrawnHandOneMore(h, d) == h \o SliceTo(d, DRAW_TO + 1 - Len(h))

\* mutant of DrawnHand: the cards come from the back of the deck
DrawnHandFromBack(h, d) == h \o SliceFrom(d, Len(d) - Len(SliceTo(d, DRAW_TO - Len(h))))

DrawnHand(h, d) == h \o SliceTo(d, DRAW_TO - Len(h))

DrawnDeck(h, d) == SliceFrom(d, DRAW_TO - Len(h))

(***************************************************************************)
(* Progression (models.py, CardInstance.add_xp / level_up, and the XP and  *)
(* dormancy loops of phase_cleanup)                                        *)
(***************************************************************************)
\* mutant of AddXp: level_up subtracts the XP from the threshold
AddXpRemainderReversed(inst, amount) ==
  LET xp == inst.xp + amount
      threshold == xp_threshold(inst.level)
  IN  IF xp >= threshold /\ inst.level < MAX_LEVEL
        THEN [inst EXCEPT !.level = @ + 1, !.xp = threshold - xp]
        ELSE [inst EXCEPT !.xp = xp]

\* add_xp followed by its one level_up
AddXp(inst, amount) ==
  LET xp == inst.xp + amount
      threshold == xp_threshold(inst.level)
  IN  IF xp >= threshold /\ inst.level < MAX_LEVEL
        THEN [inst EXCEPT !.level = @ + 1, !.xp = xp - threshold]
        ELSE [inst EXCEPT !.xp = xp]

\* sum of damage_dealt over a list of events
RECURSIVE SumDamage(_)
SumDamage(events) ==
  IF events = <<>> THEN 0 ELSE Head(events).damage_dealt + SumDamage(Tail(events))

Name(I, id) == Def(I, id).name

\* first loop: every card still on the board earns its damage dealt plus the bonus
SurvivorXp(I, b, events) ==
  [id \in DOMAIN I |->
     IF \E i \in 1..Len(b) : b[i].instance = id
       THEN LET c == b[CHOOSE i \in 1..Len(b) : b[i].instance = id]
                Mine(e) == e.attacker_name = Name(I, id) /\ e.attacker_owner = c.owner
            IN  AddXp(I[id], SumDamage(SelectSeq(events, Mine)) + SURVIVAL_XP)
       ELSE I[id]]

\* second loop, from event k on: for every destroying event, every instance of
\* the defender's name in a deck or a hand earns half of that name's damage
RECURSIVE DestroyedXp(_, _, _, _)
DestroyedXp(I, held, events, k) ==
  IF k > Len(events) THEN I
  ELSE LET ev == events[k]
           ByName(e) == e.attacker_name = ev.defender_name
           I2 == [id \in DOMAIN I |->
                    IF id \in held /\ Name(I, id) = ev.defender_name
                      THEN AddXp(I[id], SumDamage(SelectSeq(events, ByName)) \div 2)
                      ELSE I[id]]
       IN  Only({ DestroyedXp(I3, held, events, k + 1) :
                    I3 \in {IF ev.defender_destroyed THEN I2 ELSE I} })

\* third loop: consecutive losses and dormancy of the loser's deck and hand
Dormancy(I, loser_held, destroyed_names) ==
  [id \in DOMAIN I |->
     IF id \in loser_held
       THEN IF Name(I, id) \in destroyed_names
              THEN [I[id] EXCEPT
                      !.consecutive_losses = @ + 1,
                      !.is_dormant = (I[id].consecutive_losses + 1
                                        >= DORMANCY_LOSS_THRESHOLD) \/ @]
              ELSE [I[id] EXCEPT !.consecutive_losses = 0]
       ELSE I[id]]

\* the instances after phase_cleanup's three loops
Progression(I, b, h, d, last_result) ==
  LET events == last_result.events
      destroyed_names == { events[k].defender_name :
                             k \in { j \in 1..Len(events) : events[j].defender_destroyed } }
      held(p) == Range(d[p]) \cup Range(h[p])
      I1 == SurvivorXp(I, b, events)
      I2 == DestroyedXp(I1, held(ONE) \cup held(TWO), events, 1)
      round_loser == IF last_result.round_winner # None
                       THEN Opponent(last_result.round_winner) ELSE None
  IN  IF round_loser # None THEN Dormancy(I2, held(round_loser), destroyed_names) ELSE I2

\* mutant of Instances: every card comes back twice
RECURSIVE InstancesTwice(_)
InstancesTwice(s) ==
  IF s = <<>> THEN <<>>
  ELSE <<Head(s).instance, Head(s).instance>> \o InstancesTwice(Tail(s))

\* instances of a player's board cards, in board order
RECURSIVE Instances(_)
Instances(s) == IF s = <<>> THEN <<>> ELSE <<Head(s).instance>> \o Instances(Tail(s))

(***************************************************************************)
(* Initial state: GameState() with both decks loaded (simulate_match       *)
(* lines 178-182), hands empty, mana 3, scores 0, round 1, phase DRAW.     *)
(***************************************************************************)
Init ==
  /\ \E dk \in { f \in [Players -> UNION Range(Decks)] : \A p \in Players : f[p] \in Decks[p] } :
       /\ deck = [p \in Players |-> [i \in 1..Len(dk[p]) |-> InstanceId(p, i)]]
       /\ insts = [id \in UNION { { InstanceId(p, i) : i \in 1..Len(dk[p]) } : p \in Players }
                     |-> NewInstance(dk[id \div 10][id % 10], id \div 10)]
  /\ hand = [p \in Players |-> <<>>]
  /\ mana = [p \in Players |-> START_MANA]
  /\ veil_surge_used = [p \in Players |-> FALSE]
  /\ score = [p \in Players |-> 0]
  /\ board = <<>>
  /\ current_round = 1
  /\ phase = DRAW
  /\ round_history = <<>>
  /\ match_winner = None
  /\ pc = "phase_draw"
  /\ placed = [p \in Players |-> "no"]
  /\ called = Call("init", None)
  /\ trace = NoTrace

\* the caller's next position once a round is over (simulate_match's for loop)
NextRound(round) == IF round > max_rounds THEN "done" ELSE "phase_draw"

(***************************************************************************)
(* The phase operations                                                    *)
(***************************************************************************)
PhaseDraw ==
  /\ pc = "phase_draw"
  /\ hand' = [p \in Players |-> DrawnHand(hand[p], deck[p])]
  /\ deck' = [p \in Players |-> DrawnDeck(hand[p], deck[p])]
  /\ phase' = MANA
  /\ pc' = "phase_mana"
  /\ called' = Call("phase_draw", None)
  /\ UNCHANGED <<current_round, match_winner, round_history, board, mana,
                 veil_surge_used, score, insts, placed, trace>>

PhaseMana ==
  /\ pc = "phase_mana"
  /\ mana' = [p \in Players |-> Min(mana[p] + MANA_PER_TURN, MANA_CAP)]
  /\ phase' = PLACEMENT
  /\ pc' = "apply_placement"
  /\ called' = Call("phase_mana", None)
  /\ UNCHANGED <<current_round, match_winner, round_history, board, hand, deck,
                 veil_surge_used, score, insts, placed, trace>>

\* the batches a player may submit: up to MaxBatch cards of the hand
PlaceRows == {FRONT}

Entries(p) ==
  [card_instance_id : Range(hand[p]), col : 0..MaxPlaceCol, row : PlaceRows]

BatchInputs(p) == UNION { [1..n -> Entries(p)] : n \in 0..MaxBatch }

\* apply_placement of a batch that validate_placement accepts: player ONE's
\* batch, then player TWO's (simulate_match lines 218-221)
ApplyPlacement(p, batch) ==
  /\ pc = "apply_placement"
  /\ placed[p] = "no"
  /\ (p = ONE \/ placed[ONE] # "no")
  /\ ValidatePlacement(insts, board, hand[p], mana[p], veil_surge_used[p], p, batch) = ""
  /\ \E r \in {ApplyPlacementTo(insts, board, hand[p], mana[p], veil_surge_used[p], p, batch)} :
         /\ board' = r.board
         /\ hand' = [hand EXCEPT ![p] = r.hand]
         /\ mana' = [mana EXCEPT ![p] = r.mana]
         /\ veil_surge_used' = [veil_surge_used EXCEPT ![p] = r.veil_surge_used]
         /\ pc' = IF r.failed THEN "aborted"
                  ELSE IF placed[Opponent(p)] # "no" THEN "phase_reveal"
                  ELSE "apply_placement"
  /\ placed' = [placed EXCEPT ![p] = IF batch = <<>> THEN "empty" ELSE "cards"]
  /\ called' = Call("apply_placement", p)
  /\ UNCHANGED <<phase, current_round, match_winner, round_history, deck, score,
                 insts, trace>>

\* simulate_match lines 227-230: nobody placed a card, the round is skipped
SkipRound ==
  /\ pc = "phase_reveal"
  /\ \A p \in Players : placed[p] = "empty"
  /\ current_round' = current_round + 1
  /\ pc' = NextRound(current_round + 1)
  /\ placed' = [p \in Players |-> "no"]
  /\ called' = Call("skip_round", None)
  /\ UNCHANGED <<phase, match_winner, round_history, board, hand, deck, mana,
                 veil_surge_used, score, insts, trace>>

\* mutant of PhaseReveal: only the first card of the board is flipped
PhaseRevealFirstCard ==
  /\ pc = "phase_reveal"
  /\ board' = [i \in 1..Len(board) |->
                 IF i = 1 THEN [board[i] EXCEPT !.face_down = FALSE] ELSE board[i]]
  /\ phase' = RESOLVE
  /\ pc' = "phase_resolve"
  /\ called' = Call("phase_reveal", None)
  /\ UNCHANGED <<current_round, match_winner, round_history, hand, deck, mana,
                 veil_surge_used, score, insts, placed, trace>>

PhaseReveal ==
  /\ pc = "phase_reveal"
  /\ board' = [i \in 1..Len(board) |-> [board[i] EXCEPT !.face_down = FALSE]]
  /\ phase' = RESOLVE
  /\ pc' = "phase_resolve"
  /\ called' = Call("phase_reveal", None)
  /\ UNCHANGED <<current_round, match_winner, round_history, hand, deck, mana,
                 veil_surge_used, score, insts, placed, trace>>

\* phase_resolve; the caller stops once the match has a winner
\* (simulate_match lines 198 and 281)
PhaseResolve ==
  /\ pc = "phase_resolve"
  /\ \E r \in {Resolve(insts, board, score, current_round)} :
         /\ board' = r.board
         /\ score' = r.score
         /\ match_winner' = r.match_winner
         /\ round_history' = Append(round_history, r.result)
         /\ phase' = r.phase
         /\ trace' = r.trace
         /\ pc' = IF r.match_winner # None THEN "done" ELSE "phase_cleanup"
  /\ called' = Call("phase_resolve", None)
  /\ UNCHANGED <<current_round, hand, deck, mana, veil_surge_used, insts, placed>>

\* what phase_cleanup does to the match state
CleanupEffects ==
  /\ round_history # <<>>
  /\ insts' = Progression(insts, board, hand, deck, round_history[Len(round_history)])
  /\ hand' = [p \in Players |-> hand[p] \o Instances(CardsFor(board, p))]
  /\ board' = <<>>
  /\ mana' = [p \in Players |-> IF mana[p] < 0 THEN 0 ELSE mana[p]]
  /\ current_round' = current_round + 1
  /\ phase' = DRAW
  /\ placed' = [p \in Players |-> "no"]
  /\ trace' = NoTrace
  /\ called' = Call("phase_cleanup", None)
  /\ UNCHANGED <<match_winner, round_history, deck, veil_surge_used, score>>

PhaseCleanup ==
  /\ pc = "phase_cleanup"
  /\ CleanupEffects
  /\ pc' = NextRound(current_round + 1)

\* a caller that runs Cleanup after every Resolve, as test_full_round_lifecycle
\* does, also runs it on a decided match
CleanupAfterMatchOver ==
  /\ pc = "done"
  /\ phase = MATCH_OVER
  /\ CleanupEffects
  /\ pc' = "stopped"

Next ==
  \/ PhaseDraw
  \/ PhaseMana
  \/ \E p \in Players : \E batch \in BatchInputs(p) : ApplyPlacement(p, batch)
  \/ SkipRound
  \/ PhaseReveal
  \/ PhaseResolve
  \/ PhaseCleanup

\* simulate_match's caller
Spec == Init /\ [][Next]_vars

NextUnguarded == Next \/ CleanupAfterMatchOver

\* a caller that does not look at match_winner before Cleanup
SpecUnguarded == Init /\ [][NextUnguarded]_vars

(***************************************************************************)
(* One round with wider placements: a caller that validates every batch    *)
(* before it applies it (validate_placement, then apply_placement of the   *)
(* accepted batch), two rows, three columns, batches of up to two entries, *)
(* and decks whose instances carry the progression of earlier matches.     *)
(***************************************************************************)
BattleDecks ==
  [p \in {1, 2} |->
     IF p = 1 THEN { <<"spec_002", "spec_003">> }
     ELSE { <<"beh_001", "spec_003">>, <<"spec_003", "phan_002">>,
            <<"spec_003", "spec_003">> }]

\* level, consecutive_losses and is_dormant an instance can be loaded with
LoadedProgress ==
  { [level |-> 1, consecutive_losses |-> 0, is_dormant |-> FALSE],
    [level |-> 2, consecutive_losses |-> 0, is_dormant |-> FALSE],
    [level |-> 1, consecutive_losses |-> 2, is_dormant |-> FALSE],
    [level |-> 1, consecutive_losses |-> 3, is_dormant |-> TRUE] }

\* the instance of the decks that is loaded with earlier progression
Veteran == InstanceId(2, 2)

InitBattle ==
  /\ \E dk \in { f \in [Players -> UNION Range(BattleDecks)] :
                   \A p \in Players : f[p] \in BattleDecks[p] } :
     \E progress \in LoadedProgress :
       /\ deck = [p \in Players |-> [i \in 1..Len(dk[p]) |-> InstanceId(p, i)]]
       /\ insts = [id \in UNION { { InstanceId(p, i) : i \in 1..Len(dk[p]) } : p \in Players }
                     |-> IF id = Veteran
                           THEN [NewInstance(dk[id \div 10][id % 10], id \div 10) EXCEPT
                                   !.level = progress.level,
                                   !.consecutive_losses = progress.consecutive_losses,
                                   !.is_dormant = progress.is_dormant]
                           ELSE NewInstance(dk[id \div 10][id % 10], id \div 10)]
  /\ hand = [p \in Players |-> <<>>]
  /\ mana = [p \in Players |-> START_MANA]
  /\ veil_surge_used = [p \in Players |-> FALSE]
  /\ score = [p \in Players |-> 0]
  /\ board = <<>>
  /\ current_round = 1
  /\ phase = DRAW
  /\ round_history = <<>>
  /\ match_winner = None
  /\ pc = "phase_draw"
  /\ placed = [p \in Players |-> "no"]
  /\ called = Call("init", None)
  /\ trace = NoTrace

BattleCols == {0, 1, 2}

BattleRows(p) == IF p = ONE THEN {FRONT} ELSE Rows

\* entries a player may name: a card of the hand in one of the cells
BattleEntries(p) ==
  [card_instance_id : Range(hand[p]), col : BattleCols, row : BattleRows(p)]

\* entries naming a card of the opponent, or a column off the board
OddEntries(p) ==
  { [card_instance_id |-> InstanceId(Opponent(p), 1), col |-> 0, row |-> FRONT] }
    \cup { [card_instance_id |-> c, col |-> k, row |-> FRONT] :
             c \in Range(hand[p]), k \in {-1, LAST_COL + 1} }

BattleBatches(p) ==
  {<<>>} \cup { <<e>> : e \in BattleEntries(p) \cup OddEntries(p) }
         \cup { <<e1, e2>> : e1 \in BattleEntries(p), e2 \in BattleEntries(p) }

\* validate_placement: it returns its verdict and assigns nothing. Each player
\* submits one batch; player ONE may also ask about a further batch once its
\* cards are on the board.
ValidateCall(p, batch) ==
  /\ pc = "apply_placement"
  /\ called.op # "validate_placement"
  /\ (p = ONE \/ placed[ONE] # "no")
  /\ called' = [op |-> "validate_placement", player |-> p, batch |-> batch,
                error |-> ValidatePlacement(insts, board, hand[p], mana[p],
                                            veil_surge_used[p], p, batch)]
  /\ UNCHANGED <<engine, pc, placed, trace>>

\* the caller applies the batch validate_placement has just accepted
ApplyValidated(p) ==
  /\ called.op = "validate_placement"
  /\ called.player = p
  /\ called.error = ""
  /\ ApplyPlacement(p, called.batch)

NextBattle ==
  \/ (current_round = 1 /\ PhaseDraw)
  \/ PhaseMana
  \/ \E p \in Players : \E batch \in BattleBatches(p) : ValidateCall(p, batch)
  \/ \E p \in Players : ApplyValidated(p)
  \/ SkipRound
  \/ PhaseReveal
  \/ PhaseResolve
  \/ PhaseCleanup

SpecBattle == InitBattle /\ [][NextBattle]_vars

(***************************************************************************)
(* The caller of SpecBattle, who may also hand a batch to apply_placement  *)
(* without asking validate_placement first, as test_full_round_lifecycle   *)
(* does, and more than once in a round. Such a batch names cards of the    *)
(* hand, each once, and cells of the board; the cells may be taken.        *)
(***************************************************************************)
DirectBatches(p) ==
  { batch \in BattleBatches(p) :
      /\ batch # <<>>
      /\ \A k \in 1..Len(batch) : batch[k] \in BattleEntries(p)
      /\ \A j, k \in 1..Len(batch) :
           j # k => batch[j].card_instance_id # batch[k].card_instance_id }

\* apply_placement of a batch nobody validated; called keeps the batch
ApplyDirect(p, batch) ==
  /\ pc = "apply_placement"
  /\ called.op # "validate_placement"
  /\ (p = ONE \/ placed[ONE] # "no")
  /\ \E r \in {ApplyPlacementTo(insts, board, hand[p], mana[p], veil_surge_used[p], p, batch)} :
         /\ board' = r.board
         /\ hand' = [hand EXCEPT ![p] = r.hand]
         /\ mana' = [mana EXCEPT ![p] = r.mana]
         /\ veil_surge_used' = [veil_surge_used EXCEPT ![p] = r.veil_surge_used]
         /\ pc' = IF r.failed THEN "aborted"
                  ELSE IF p = TWO \/ placed[TWO] # "no" THEN "phase_reveal"
                  ELSE "apply_placement"
  /\ placed' = [placed EXCEPT ![p] = "cards"]
  /\ called' = [op |-> "apply_placement", player |-> p, batch |-> batch]
  /\ UNCHANGED <<phase, current_round, match_winner, round_history, deck, score,
                 insts, trace>>

NextDirect ==
  \/ NextBattle
  \/ \E p \in Players : \E batch \in DirectBatches(p) : ApplyDirect(p, batch)

SpecDirect == InitBattle /\ [][NextDirect]_vars

(***************************************************************************)
(* A match between decks with costly cards: the same caller as Spec, with  *)
(* batches that can exceed the mana at hand.                               *)
(***************************************************************************)
ManaDecks ==
  [p \in {1, 2} |->
     IF p = 1 THEN { <<"beh_001", "spec_003">> } ELSE { <<"beh_002", "spec_003">> }]

InitMana ==
  /\ \E dk \in { f \in [Players -> UNION Range(ManaDecks)] :
                   \A p \in Players : f[p] \in ManaDecks[p] } :
       /\ deck = [p \in Players |-> [i \in 1..Len(dk[p]) |-> InstanceId(p, i)]]
       /\ insts = [id \in UNION { { InstanceId(p, i) : i \in 1..Len(dk[p]) } : p \in Players }
                     |-> NewInstance(dk[id \div 10][id % 10], id \div 10)]
  /\ hand = [p \in Players |-> <<>>]
  /\ mana = [p \in Players |-> START_MANA]
  /\ veil_surge_used = [p \in Players |-> FALSE]
  /\ score = [p \in Players |-> 0]
  /\ board = <<>>
  /\ current_round = 1
  /\ phase = DRAW
  /\ round_history = <<>>
  /\ match_winner = None
  /\ pc = "phase_draw"
  /\ placed = [p \in Players |-> "no"]
  /\ called = Call("init", None)
  /\ trace = NoTrace

SpecMana == InitMana /\ [][Next]_vars

(***************************************************************************)
(* A match followed up to the end of its first fought round, with three or *)
(* four cards a side: the rounds before it are skipped with empty batches  *)
(* (simulate_match lines 227-230), so the fight can fall in any of the     *)
(* five rounds. Each card of the hand goes to the column of its place in   *)
(* the hand, front or back, or stays in the hand.                          *)
(***************************************************************************)
FormationDecks ==
  [p \in {1, 2} |->
     IF p = 1 THEN { <<"spec_003", "phan_002", "rev_003", "spec_003">> }
     ELSE { <<"spec_003", "phan_002", "rev_003">>, <<"spec_003", "rev_001", "phan_002">> }]

InitFormation ==
  /\ \E dk \in { f \in [Players -> UNION Range(FormationDecks)] :
                   \A p \in Players : f[p] \in FormationDecks[p] } :
       /\ deck = [p \in Players |-> [i \in 1..Len(dk[p]) |-> InstanceId(p, i)]]
       /\ insts = [id \in UNION { { InstanceId(p, i) : i \in 1..Len(dk[p]) } : p \in Players }
                     |-> NewInstance(dk[id \div 10][id % 10], id \div 10)]
  /\ hand = [p \in Players |-> <<>>]
  /\ mana = [p \in Players |-> START_MANA]
  /\ veil_surge_used = [p \in Players |-> FALSE]
  /\ score = [p \in Players |-> 0]
  /\ board = <<>>
  /\ current_round = 1
  /\ phase = DRAW
  /\ round_history = <<>>
  /\ match_winner = None
  /\ pc = "phase_draw"
  /\ placed = [p \in Players |-> "no"]
  /\ called = Call("init", None)
  /\ trace = NoTrace

\* what a batch does with one card of the hand
FormationChoices == {"hold", FRONT, BACK}

\* the batch that places the cards of hand h from its k-th on as choice says
RECURSIVE FormationBatch(_, _, _)
FormationBatch(h, choice, k) ==
  IF k > Len(h) THEN <<>>
  ELSE (IF choice[k] = "hold" THEN <<>>
        ELSE << [card_instance_id |-> h[k], col |-> k - 1, row |-> choice[k]] >>)
       \o FormationBatch(h, choice, k + 1)

FormationBatches(p) ==
  { FormationBatch(hand[p], choice, 1) : choice \in [1..Len(hand[p]) -> FormationChoices] }

NextFormation ==
  \/ (round_history = <<>> /\ PhaseDraw)
  \/ PhaseMana
  \/ \E p \in Players : \E batch \in FormationBatches(p) : ApplyPlacement(p, batch)
  \/ SkipRound
  \/ PhaseReveal
  \/ PhaseResolve
  \/ PhaseCleanup

SpecFormation == InitFormation /\ [][NextFormation]_vars

(***************************************************************************)
(* A match between a seven-card and a six-card deck of cheap cards: the    *)
(* first draw leaves two cards and one card in the decks, and later draws  *)
(* replace the cards lost in the rounds before while the deck lasts. A     *)
(* batch places the first one or two cards of the hand in the front row,   *)
(* or nothing.                                                             *)
(***************************************************************************)
DrawDecks ==
  [p \in {1, 2} |->
     IF p = 1
       THEN { <<"spec_003", "phan_002", "rev_003", "spec_001", "rev_002", "spec_003",
                "phan_002">> }
       ELSE { <<"phan_002", "spec_003", "rev_003", "rev_002", "spec_001", "phan_002">> }]

InitDraw ==
  /\ \E dk \in { f \in [Players -> UNION Range(DrawDecks)] :
                   \A p \in Players : f[p] \in DrawDecks[p] } :
       /\ deck = [p \in Players |-> [i \in 1..Len(dk[p]) |-> InstanceId(p, i)]]
       /\ insts = [id \in UNION { { InstanceId(p, i) : i \in 1..Len(dk[p]) } : p \in Players }
                     |-> NewInstance(dk[id \div 10][id % 10], id \div 10)]
  /\ hand = [p \in Players |-> <<>>]
  /\ mana = [p \in Players |-> START_MANA]
  /\ veil_surge_used = [p \in Players |-> FALSE]
  /\ score = [p \in Players |-> 0]
  /\ board = <<>>
  /\ current_round = 1
  /\ phase = DRAW
  /\ round_history = <<>>
  /\ match_winner = None
  /\ pc = "phase_draw"
  /\ placed = [p \in Players |-> "no"]
  /\ called = Call("init", None)
  /\ trace = NoTrace

\* longest batch of this caller
MaxDrawBatch == 2

\* the first n cards of the hand, card k in column k - 1 of the front row
DrawBatches(p) ==
  { [k \in 1..n |-> [card_instance_id |-> hand[p][k], col |-> k - 1, row |-> FRONT]] :
      n \in 0..Min(MaxDrawBatch, Len(hand[p])) }

NextDraw ==
  \/ PhaseDraw
  \/ PhaseMana
  \/ \E p \in Players : \E batch \in DrawBatches(p) : ApplyPlacement(p, batch)
  \/ SkipRound
  \/ PhaseReveal
  \/ PhaseResolve
  \/ PhaseCleanup

SpecDraw == InitDraw /\ [][NextDraw]_vars

(***************************************************************************)
(* One card instance over many rounds and matches: a sequence of add_xp    *)
(* calls on a fresh instance, as phase_cleanup makes them. called keeps    *)
(* the amount of the last call and the sum of all amounts so far.          *)
(***************************************************************************)
\* the instance that earns the XP
Learner == InstanceId(1, 1)

\* amounts of XP one call adds
XpAmounts == {10, 15, 40, 100}

\* the calls stop once the amounts add up to this much
MaxEarned == 2000

InitXp ==
  /\ insts = [id \in {Learner} |-> NewInstance("spec_003", ONE)]
  /\ deck = [p \in Players |-> IF p = ONE THEN <<Learner>> ELSE <<>>]
  /\ hand = [p \in Players |-> <<>>]
  /\ mana = [p \in Players |-> START_MANA]
  /\ veil_surge_used = [p \in Players |-> FALSE]
  /\ score = [p \in Players |-> 0]
  /\ board = <<>>
  /\ current_round = 1
  /\ phase = DRAW
  /\ round_history = <<>>
  /\ match_winner = None
  /\ pc = "add_xp"
  /\ placed = [p \in Players |-> "no"]
  /\ called = [op |-> "init", player |-> None, amount |-> 0, earned |-> 0]
  /\ trace = NoTrace

\* CardInstance.add_xp(amount) on the instance
AddXpCall(amount) ==
  /\ pc = "add_xp"
  /\ called.earned + amount <= MaxEarned
  /\ insts' = [insts EXCEPT ![Learner] = AddXp(@, amount)]
  /\ called' = [op |-> "add_xp", player |-> None, amount |-> amount,
                earned |-> called.earned + amount]
  /\ UNCHANGED <<phase, current_round, match_winner, round_history, board, hand, deck,
                 mana, veil_surge_used, score, pc, placed, trace>>

NextXp == \E amount \in XpAmounts : AddXpCall(amount)

SpecXp == InitXp /\ [][NextXp]_vars

(***************************************************************************)
(* A match followed up to the end of its first fought round between decks  *)
(* that hold the LIFESTEAL and VEIL_ECHO cards, with the batches of        *)
(* NextFormation: a round late enough for the mana these cards cost is     *)
(* reached by skipping the rounds before it.                               *)
(***************************************************************************)
AbilityDecks ==
  [p \in {1, 2} |->
     IF p = 1 THEN { <<"spec_002", "beh_003", "spec_003">> }
     ELSE { <<"spec_003", "beh_001">>, <<"beh_001", "spec_003">>,
            <<"spec_001", "spec_003">> }]

InitAbility ==
  /\ \E dk \in { f \in [Players -> UNION Range(AbilityDecks)] :
                   \A p \in Players : f[p] \in AbilityDecks[p] } :
       /\ deck = [p \in Players |-> [i \in 1..Len(dk[p]) |-> InstanceId(p, i)]]
       /\ insts = [id \in UNION { { InstanceId(p, i) : i \in 1..Len(dk[p]) } : p \in Players }
                     |-> NewInstance(dk[id \div 10][id % 10], id \div 10)]
  /\ hand = [p \in Players |-> <<>>]
  /\ mana = [p \in Players |-> START_MANA]
  /\ veil_surge_used = [p \in Players |-> FALSE]
  /\ score = [p \in Players |-> 0]
  /\ board = <<>>
  /\ current_round = 1
  /\ phase = DRAW
  /\ round_history = <<>>
  /\ match_winner = None
  /\ pc = "phase_draw"
  /\ placed = [p \in Players |-> "no"]
  /\ called = Call("init", None)
  /\ trace = NoTrace

SpecAbility == InitAbility /\ [][NextFormation]_vars

(***************************************************************************)
(* Properties                                                              *)
(***************************************************************************)
Last(s) == s[Len(s)]

ResolveJustRan == called.op = "phase_resolve"

\* C1: with the phase operations run in round order (no round skipped), every
\* change of the phase field follows DRAW, MANA, PLACEMENT, REVEAL, RESOLVE,
\* CLEANUP and DRAW again, or RESOLVE to MATCH_OVER; no value is left out.
PhaseSuccession ==
  { <<DRAW, MANA>>, <<MANA, PLACEMENT>>, <<PLACEMENT, REVEAL>>, <<REVEAL, RESOLVE>>,
    <<RESOLVE, CLEANUP>>, <<RESOLVE, MATCH_OVER>>, <<CLEANUP, DRAW>> }

C1_PhasesInOrder ==
  [][ (phase' # phase /\ called.op # "skip_round")
        => <<phase, phase'>> \in PhaseSuccession ]_vars

\* C2: the phase becomes MATCH_OVER only by phase_resolve, and right after
\* every phase_resolve it is MATCH_OVER exactly when match_winner is set and
\* CLEANUP exactly when it is unset.
C2_MatchOverOnlyByResolve ==
  [][ /\ (phase' = MATCH_OVER /\ phase # MATCH_OVER) => called'.op = "phase_resolve"
      /\ called'.op = "phase_resolve"
           => /\ (phase' = MATCH_OVER) <=> (match_winner' # None)
              /\ (phase' = CLEANUP) <=> (match_winner' = None) ]_vars

C2_Witness == ResolveJustRan /\ phase = MATCH_OVER /\ match_winner # None

\* C3: once the phase is MATCH_OVER no operation changes it; phase_cleanup
\* run on a decided match leaves MATCH_OVER in place.
C3_MatchOverIsTerminal == [][ phase = MATCH_OVER => phase' = MATCH_OVER ]_vars

\* C4: after phase_resolve, match_winner is set exactly when a score has
\* reached WIN_SCORE (that player wins, in any round) or the round is the
\* final one or later and the scores differ (the higher score wins).
C4_MatchWinnerRule ==
  ResolveJustRan =>
    LET reached(p) == score[p] >= WIN_SCORE
        final == current_round >= ROUNDS_PER_MATCH
    IN  /\ (match_winner # None)
             <=> (reached(ONE) \/ reached(TWO) \/ (final /\ score[ONE] # score[TWO]))
        /\ \A p \in Players :
             /\ (reached(p) /\ ~reached(Opponent(p))) => match_winner = p
             /\ (~reached(ONE) /\ ~reached(TWO) /\ final /\ score[p] > score[Opponent(p)])
                  => match_winner = p
        /\ Last(round_history).match_winner = match_winner

C4_Witness ==
  /\ ResolveJustRan
  /\ current_round < ROUNDS_PER_MATCH
  /\ score[TWO] >= WIN_SCORE
  /\ match_winner = TWO

\* C5: when the scores are equal after the Resolve of the final round (5),
\* match_winner stays unset and the match has ended there: no further round
\* starts and current_round stays at most 5.
UndecidedFinal ==
  /\ round_history # <<>>
  /\ Last(round_history).round_number = ROUNDS_PER_MATCH
  /\ Last(round_history).match_score.player_1 = Last(round_history).match_score.player_2

C5_UndecidedFinalIsTerminal ==
  UndecidedFinal =>
    /\ match_winner = None
    /\ current_round <= ROUNDS_PER_MATCH

\* C6: the round outcome follows the table on the board after removal: both
\* sides empty is a tie for 0; exactly one side empty gives the other side 2
\* points whatever its HP total; otherwise the higher HP total wins 1 point
\* and equal totals tie for 0.
C6_RoundOutcomeTable ==
  ResolveJustRan =>
    LET r == Last(round_history)
        cells(p) == { i \in 1..Len(board) : board[i].owner = p }
        total(p) == SumHp(CardsFor(board, p))
        is(w, pts) == r.round_winner = w /\ r.round_points_awarded = pts
    IN  /\ (cells(ONE) = {} /\ cells(TWO) = {}) => is(None, 0)
        /\ \A p \in Players :
             /\ (cells(p) # {} /\ cells(Opponent(p)) = {}) => is(p, 2)
             /\ (cells(ONE) # {} /\ cells(TWO) # {} /\ total(p) > total(Opponent(p)))
                  => is(p, 1)
        /\ (cells(ONE) # {} /\ cells(TWO) # {} /\ total(ONE) = total(TWO)) => is(None, 0)

\* one side lost its last card in this round's fight and the other scored 2
C6_Witness ==
  /\ ResolveJustRan
  /\ Last(round_history).events # <<>>
  /\ CardsFor(board, ONE) = <<>>
  /\ CardsFor(board, TWO) # <<>>
  /\ Last(round_history).round_winner = TWO
  /\ Last(round_history).round_points_awarded = 2

\* C7: phase_resolve adds round_points_awarded to the round winner's score and
\* to no other score (to none on a tie); no other operation changes a score;
\* scores never decrease and, the match stopping at MATCH_OVER, never exceed 4.
C7_ScoreChanges ==
  [][ /\ called'.op = "phase_resolve"
           => \A p \in Players :
                score'[p] = score[p]
                  + (IF Last(round_history').round_winner = p
                       THEN Last(round_history').round_points_awarded ELSE 0)
      /\ called'.op # "phase_resolve" => score' = score
      /\ \A p \in Players : score'[p] >= score[p] /\ score'[p] <= 4 ]_vars

C7_Witness == ResolveJustRan /\ \E p \in Players : score[p] = 4

\* the orders in which the cells of a board can have been inserted
Reorderings(b) ==
  { [i \in 1..Len(b) |-> b[f[i]]] :
      f \in { g \in [1..Len(b) -> 1..Len(b)] :
                \A i, j \in 1..Len(b) : g[i] = g[j] => i = j } }

\* C8: Resolve is a function of the board contents (cells, cards, HP), the
\* scores and the round number: boards with the same cells give the same
\* events, round winner, points and resulting board.
C8_ResolveDependsOnContentsOnly ==
  pc = "phase_resolve" =>
    \A b2 \in Reorderings(board) :
      LET r1 == Resolve(insts, board, score, current_round)
          r2 == Resolve(insts, b2, score, current_round)
      IN  r1.result = r2.result /\ Range(r1.board) = Range(r2.board)

\* validated batches of player p in the current state
ValidBatches(p) ==
  { batch \in BatchInputs(p) :
      ValidatePlacement(insts, board, hand[p], mana[p], veil_surge_used[p], p, batch) = "" }

\* hands, mana, board contents and RoundResult after p places bp, then q places
\* bq, then Reveal and Resolve
RoundAfter(p, bp, q, bq) ==
  LET a1 == ApplyPlacementTo(insts, board, hand[p], mana[p], veil_surge_used[p], p, bp)
      a2 == ApplyPlacementTo(insts, a1.board, hand[q], mana[q], veil_surge_used[q], q, bq)
      revealed == [i \in 1..Len(a2.board) |-> [a2.board[i] EXCEPT !.face_down = FALSE]]
      r == Resolve(insts, revealed, score, current_round)
  IN  [hands |-> [x \in {p, q} |-> IF x = p THEN a1.hand ELSE a2.hand],
       mana |-> [x \in {p, q} |-> IF x = p THEN a1.mana ELSE a2.mana],
       placed_cells |-> Range(a2.board),
       result |-> r.result,
       cells |-> Range(r.board)]

\* C9: the round does not depend on which player's validated batch is applied
\* first: same hands, mana and board contents, and after Reveal and Resolve
\* the same RoundResult.
C9_PlacementOrderIrrelevant ==
  (pc = "apply_placement" /\ \A p \in Players : placed[p] = "no") =>
    \A b1 \in ValidBatches(ONE) : \A b2 \in ValidBatches(TWO) :
      RoundAfter(ONE, b1, TWO, b2) = RoundAfter(TWO, b2, ONE, b1)

\* C10: apply_placement for player P leaves the opponent's hand, mana,
\* veil_surge_used and board cells, both decks, both scores, the round counter,
\* the phase, the history and the match winner as they were.
C10_PlacementFrame ==
  [][ called'.op = "apply_placement"
        => LET q == Opponent(called'.player) IN
           /\ hand'[q] = hand[q]
           /\ mana'[q] = mana[q]
           /\ veil_surge_used'[q] = veil_surge_used[q]
           /\ CardsFor(board', q) = CardsFor(board, q)
           /\ UNCHANGED <<deck, score, current_round, phase, round_history,
                          match_winner, insts>> ]_vars

\* player TWO placed a card in the cell facing a card of player ONE
C10_Witness ==
  /\ called = Call("apply_placement", TWO)
  /\ placed[TWO] = "cards"
  /\ \E i, j \in 1..Len(board) :
       /\ board[i].owner = ONE /\ board[j].owner = TWO
       /\ board[i].col = board[j].col /\ board[i].row = board[j].row
  /\ veil_surge_used[TWO]

ValidateJustRan == called.op = "validate_placement"

\* entry k of the batch fails one of validate_placement's per-entry checks
BadEntry(p, batch, k) ==
  LET e == batch[k] IN
  \/ e.card_instance_id \notin Range(hand[p])
  \/ insts[e.card_instance_id].is_dormant
  \/ e.row \notin ValidRowsFor(p)
  \/ e.col \notin 0..LAST_COL
  \/ \E j \in 1..(k - 1) : batch[j].col = e.col /\ batch[j].row = e.row
  \/ Occupied(board, e.col, e.row, p)

\* C11: validate_placement rejects, with a non-empty description, every batch
\* with an entry that names a card not in the hand, a dormant card, a row that
\* is not the player's, a column outside 0..3, a cell used earlier in the
\* batch or an occupied cell; and it changes no part of the state.
C11_ValidateRejectsAndKeepsState ==
  [][ called'.op = "validate_placement"
        => /\ UNCHANGED engine
           /\ (\E k \in 1..Len(called'.batch) :
                 BadEntry(called'.player, called'.batch, k)) => called'.error # "" ]_vars

\* a card of the hand, an affordable cost, but the cell already holds the
\* player's card: rejected
C11_Witness ==
  /\ ValidateJustRan
  /\ Len(called.batch) = 1
  /\ called.batch[1].card_instance_id \in Range(hand[called.player])
  /\ Occupied(board, called.batch[1].col, called.batch[1].row, called.player)
  /\ called.error # ""

\* total mana cost of the cards a batch names
RECURSIVE BatchCost(_)
BatchCost(batch) ==
  IF batch = <<>> THEN 0
  ELSE Def(insts, Head(batch).card_instance_id).mana_cost + BatchCost(Tail(batch))

\* the batches of player p that pass every per-entry check in this state
WellFormed(p) ==
  { batch \in BatchInputs(p) : \A k \in 1..Len(batch) : ~BadEntry(p, batch, k) }

\* the player whose batch the caller validates next
Placing == IF placed[ONE] = "no" THEN ONE ELSE TWO

\* C12: a batch that passes every per-entry check is accepted if its cost is
\* at most the player's mana, or exceeds it by at most 3 while veil_surge_used
\* is false; it is rejected if the overdraft is 4 or more, or positive with
\* veil_surge_used true.
C12_ManaRule ==
  pc = "apply_placement" =>
    \A batch \in WellFormed(Placing) :
      LET overdraft == BatchCost(batch) - mana[Placing]
          verdict == ValidatePlacement(insts, board, hand[Placing], mana[Placing],
                                       veil_surge_used[Placing], Placing, batch)
      IN  /\ (overdraft <= 0 \/ (overdraft <= 3 /\ ~veil_surge_used[Placing]))
               => verdict = ""
          /\ (overdraft >= 4 \/ (overdraft > 0 /\ veil_surge_used[Placing]))
               => verdict # ""

\* the Veil Surge is spent and the player's next card costs a little more than
\* the mana at hand: rejected
C12_Witness ==
  /\ pc = "apply_placement"
  /\ veil_surge_used[Placing]
  /\ \E batch \in WellFormed(Placing) :
       /\ BatchCost(batch) - mana[Placing] \in 1..3
       /\ ValidatePlacement(insts, board, hand[Placing], mana[Placing],
                            veil_surge_used[Placing], Placing, batch) # ""

\* a batch the placing player cannot pay from the mana at hand is rejected
\* once that player's Veil Surge is used
NoSecondSurge ==
  (pc = "apply_placement" /\ veil_surge_used[Placing]) =>
    \A batch \in BatchInputs(Placing) :
      BatchCost(batch) > mana[Placing] =>
        ValidatePlacement(insts, board, hand[Placing], mana[Placing],
                          veil_surge_used[Placing], Placing, batch) # ""

\* C13: Veil Surge is one-shot per player: an applied overdraft sets
\* veil_surge_used, which then stays true for the rest of the match; every
\* later batch costing more than the mana at hand is rejected; and mana turns
\* negative only by the one overdraft, so at most once per player.
C13_VeilSurgeOnce ==
  /\ []NoSecondSurge
  /\ [][ \A p \in Players :
           /\ veil_surge_used[p] => veil_surge_used'[p]
           /\ mana'[p] < 0 => veil_surge_used'[p]
           /\ (mana'[p] < 0 /\ mana[p] >= 0) => ~veil_surge_used[p] ]_vars

\* two rounds after its overdraft the player holds mana again, and a card
\* that costs more than this mana
C13_Witness ==
  /\ pc = "apply_placement"
  /\ current_round >= 3
  /\ veil_surge_used[Placing]
  /\ mana[Placing] > 0
  /\ \E batch \in BatchInputs(Placing) : BatchCost(batch) > mana[Placing]

\* C14: placement is all-or-nothing: apply_placement of a batch that
\* validate_placement has just accepted in the same state completes and
\* applies every entry: each named card leaves the hand and lies face-down at
\* current_hp = max_defense in its cell, and mana is reduced by the total cost
\* or set to minus the overdraft; it never stops part-way.
C14_AcceptedBatchFullyApplied ==
  [][ (called.op = "validate_placement" /\ called'.op = "apply_placement")
        => LET p == called.player
               batch == called.batch
               cost == BatchCost(batch)
           IN  /\ pc' # "aborted"
               /\ \A k \in 1..Len(batch) :
                    /\ batch[k].card_instance_id \notin Range(hand'[p])
                    /\ NewBoardCard(insts, batch[k].card_instance_id, batch[k].col,
                                    batch[k].row, p) \in Range(board')
               /\ mana'[p] = IF cost > mana[p] THEN -(cost - mana[p]) ELSE mana[p] - cost ]_vars

NoDormantOnBoard == \A i \in 1..Len(board) : ~insts[board[i].instance].is_dormant

\* C15: validate_placement rejects every batch that names a dormant card, so
\* with only validated batches applied no dormant instance is ever on the
\* board; and is_dormant, once set, is never cleared.
C15_DormantStaysOffBoard ==
  /\ []NoDormantOnBoard
  /\ [][ /\ \A id \in DOMAIN insts : insts[id].is_dormant => insts'[id].is_dormant
         /\ called'.op = "validate_placement"
              => ((\E k \in 1..Len(called'.batch) :
                     /\ called'.batch[k].card_instance_id \in Range(hand[called'.player])
                     /\ insts[called'.batch[k].card_instance_id].is_dormant)
                  => called'.error # "") ]_vars

\* a held card reached its third consecutive loss in this round's Cleanup
C15_Witness ==
  /\ called.op = "phase_cleanup"
  /\ Last(round_history).round_winner = ONE
  /\ insts[Veteran].is_dormant
  /\ insts[Veteran].consecutive_losses = DORMANCY_LOSS_THRESHOLD

\* the calls of _find_target of the last Resolve
Decisions == { trace.steps[k] : k \in 1..Len(trace.steps) }

\* the card in front of card c on board b is there and has no HP left
BehindDead(b, c) ==
  /\ c.row = BACK
  /\ \E i \in 1..Len(b) : Key(b[i]) = <<c.col, FRONT, c.owner>> /\ ~IsAlive(b[i])

C17_ShieldedByLiveCardOnly ==
  \A d \in Decisions :
    \A i \in 1..Len(d.before) :
      LET c == d.before[i] IN
      IsTargetable(d.before, c)
        <=> ~(/\ c.row = BACK
              /\ \E j \in 1..Len(d.before) :
                   Key(d.before[j]) = <<c.col, FRONT, c.owner>> /\ IsAlive(d.before[j]))

\* C18: when phase_resolve returns no card with current_hp <= 0 is left on the
\* board: every card brought to 0 HP or less in the round, by an attack or by
\* Veil Echo, has been removed before scoring, so both surviving-defense
\* totals are sums of positive HP and are never negative.
C18_NoDeadCardAfterResolve ==
  ResolveJustRan =>
    /\ \A i \in 1..Len(board) : board[i].current_hp > 0
    /\ Last(round_history).p1_surviving_defense >= 0
    /\ Last(round_history).p2_surviving_defense >= 0

\* the cards of board b an attacker of player p may hit
Eligible(b, p) ==
  { i \in 1..Len(b) : b[i].owner = Opponent(p) /\ IsAlive(b[i]) /\ IsTargetable(b, b[i]) }

\* C19: for every live attacker _find_target returns the first eligible of
\* (1) the opponent's same-column front-row card if alive, (2) else the
\* opponent's same-column back-row card if alive and targetable, (3) else an
\* alive targetable opposing card of minimal column distance and, among
\* those, minimal current HP, (4) else no target, and then no event is
\* emitted. Every defender belongs to the attacker's opponent and had
\* current_hp > 0 just before the hit.
C19_TargetPriority ==
  ResolveJustRan =>
    /\ \A d \in Decisions :
         LET b == d.before
             a == b[d.attacker]
             opp == Opponent(a.owner)
             Facing(row) == { i \in 1..Len(b) : Key(b[i]) = <<a.col, row, opp>> /\ IsAlive(b[i]) }
             Dist(i) == Abs(b[i].col - a.col)
         IN  /\ IsAlive(a)
             /\ IF Facing(FRONT) # {} THEN d.target \in Facing(FRONT)
                ELSE IF Facing(BACK) \cap Eligible(b, a.owner) # {} THEN d.target \in Facing(BACK)
                ELSE IF Eligible(b, a.owner) # {}
                  THEN /\ d.target \in Eligible(b, a.owner)
                       /\ \A j \in Eligible(b, a.owner) :
                            \/ Dist(d.target) < Dist(j)
                            \/ Dist(d.target) = Dist(j)
                                 /\ b[d.target].current_hp <= b[j].current_hp
                ELSE d.target = 0
             /\ d.target # 0 => (b[d.target].owner = opp /\ b[d.target].current_hp > 0)
    /\ Len(Last(round_history).events)
         = Cardinality({ k \in 1..Len(trace.steps) : trace.steps[k].target # 0 })

\* no enemy in the attacker's column, two eligible enemies at the same
\* distance: the one with less HP is hit
C19_Witness ==
  /\ ResolveJustRan
  /\ \E d \in Decisions :
       /\ d.target # 0
       /\ d.before[d.target].col # d.before[d.attacker].col
       /\ \E j \in Eligible(d.before, d.before[d.attacker].owner) :
            /\ Abs(d.before[j].col - d.before[d.attacker].col)
                 = Abs(d.before[d.target].col - d.before[d.attacker].col)
            /\ d.before[j].current_hp > d.before[d.target].current_hp

\* the steps of the last Resolve that hit a target, in order
Hits == LET Struck(st) == st.target # 0 IN SelectSeq(trace.steps, Struck)

\* C20: within one Resolve the attack order is computed once: events come in
\* non-increasing attacker speed and, at equal speed, non-increasing
\* effective attack; each board card is the attacker of at most one event; a
\* card already at 0 HP or less at its turn emits no event; and the events'
\* order indices are exactly 1, 2, ..., n.
C20_AttackOrder ==
  ResolveJustRan =>
    LET events == Last(round_history).events
        b0 == trace.board_in
        Speed(k) == Def(insts, b0[Hits[k].attacker].instance).speed
        Power(k) == EffectiveAttack(insts, b0[Hits[k].attacker])
    IN  /\ Len(events) = Len(Hits)
        /\ \A k \in 1..Len(events) :
             /\ events[k].order = k
             /\ events[k].raw_attack = Power(k)
             /\ events[k].attacker_owner = b0[Hits[k].attacker].owner
             /\ Hits[k].before[Hits[k].attacker].current_hp > 0
        /\ \A k, l \in 1..Len(Hits) :
             k < l => /\ Hits[k].attacker # Hits[l].attacker
                      /\ Speed(k) >= Speed(l)
                      /\ Speed(k) = Speed(l) => Power(k) >= Power(l)

\* two cards of equal speed attacked, the stronger first although it was
\* placed later, and a third card was destroyed before its turn came
C20_Witness ==
  /\ ResolveJustRan
  /\ \E k, l \in 1..Len(Hits) :
       /\ k < l
       /\ Hits[k].attacker > Hits[l].attacker
       /\ Def(insts, trace.board_in[Hits[k].attacker].instance).speed
            = Def(insts, trace.board_in[Hits[l].attacker].instance).speed
       /\ EffectiveAttack(insts, trace.board_in[Hits[k].attacker])
            > EffectiveAttack(insts, trace.board_in[Hits[l].attacker])
  /\ \E i \in 1..Len(trace.board_in) :
       /\ \A k \in 1..Len(trace.steps) : trace.steps[k].attacker # i
       /\ \E k \in 1..Len(Hits) :
            Hits[k].target = i /\ Last(round_history).events[k].defender_destroyed

\* C21: for every event, raw_attack is the attacker's effective attack,
\* type_multiplier is TYPE_MATCHUP[attacker type][defender type] and
\* damage_dealt is floor(raw_attack x multiplier), less the defender's armor
\* value and not below 0 when the defender has ARMOR; the defender's HP drops
\* by exactly damage_dealt; damage_dealt is a non-negative integer.
C21_DamageRule ==
  ResolveJustRan =>
    /\ Len(Last(round_history).events) = Len(Hits)
    /\ \A k \in 1..Len(Hits) :
         LET ev == Last(round_history).events[k]
             att == Hits[k].before[Hits[k].attacker]
             dfd == Hits[k].before[Hits[k].target]
             raw == EffectiveAttack(insts, att)
             m4 == TYPE_MATCHUP[Def(insts, att.instance).card_type]
                               [Def(insts, dfd.instance).card_type]
             whole == CHOOSE d \in 0..(2 * raw) : 4 * d <= raw * m4 /\ raw * m4 < 4 * (d + 1)
             shield == Def(insts, dfd.instance).ability
             armor == IF shield.effect = "armor" THEN shield.num \div shield.den ELSE 0
         IN  /\ ev.raw_attack = raw
             /\ ev.type_multiplier = m4
             /\ ev.damage_dealt = (IF whole - armor > 0 THEN whole - armor ELSE 0)
             /\ ev.damage_dealt \in Nat
             /\ Hits[k].after[Hits[k].target].current_hp = dfd.current_hp - ev.damage_dealt

\* an effective attack of 7 with the 1.5 advantage dealt 10, and a hit at 0.75
\* on an armored defender lost a fraction and then the armor value
C21_Witness ==
  /\ ResolveJustRan
  /\ \E k \in 1..Len(Last(round_history).events) :
       LET ev == Last(round_history).events[k] IN
       ev.raw_attack = 7 /\ ev.type_multiplier = 6 /\ ev.damage_dealt = 10
  /\ \E k \in 1..Len(Last(round_history).events) :
       LET ev == Last(round_history).events[k] IN
       /\ ev.defender_name = "Gravaul the Unyielding"
       /\ ev.type_multiplier = 3
       /\ (ev.raw_attack * 3) % 4 # 0
       /\ ev.damage_dealt = ((ev.raw_attack * 3) \div 4) - 2

\* the front-row columns player p occupies on board b
FrontColumns(b, p) ==
  { b[i].col : i \in { j \in 1..Len(b) : b[j].owner = p /\ b[j].row = FRONT } }

\* the flanking condition as the rules state it
Qualifies(b, p) ==
  Cardinality(FrontColumns(b, p)) >= 3 /\ Cardinality(FrontColumns(b, Opponent(p))) <= 2

\* C22: in Resolve every front-row card of a player receives the +2 flanking
\* bonus if and only if that player occupies at least 3 front-row columns and
\* the opponent at most 2; back-row cards never receive it; at most one player
\* receives it; and flanking_applied names that player, None when nobody
\* qualifies.
C22_FlankingRule ==
  /\ pc = "phase_resolve" =>
       /\ \A i \in 1..Len(board) :
            ApplyFlanking(board)[i].position_bonus_attack - board[i].position_bonus_attack
              = (IF board[i].row = FRONT /\ Qualifies(board, board[i].owner) THEN 2 ELSE 0)
       /\ ~(Qualifies(board, ONE) /\ Qualifies(board, TWO))
  /\ ResolveJustRan =>
       LET b0 == trace.board_in
           flanking_applied == Last(round_history).flanking_applied
       IN  /\ \A p \in Players : Qualifies(b0, p) => flanking_applied = p
           /\ (~Qualifies(b0, ONE) /\ ~Qualifies(b0, TWO)) => flanking_applied = None
           /\ \A i \in 1..Len(b0) :
                (b0[i].row = FRONT /\ Qualifies(b0, b0[i].owner))
                  => b0[i].position_bonus_attack >= 2

\* player ONE flanked with three front-row cards and a fourth in the back row,
\* against two front-row cards
C22_Witness ==
  /\ ResolveJustRan
  /\ Last(round_history).flanking_applied = ONE
  /\ Cardinality(FrontColumns(trace.board_in, TWO)) = 2
  /\ \E i \in 1..Len(trace.board_in) :
       trace.board_in[i].owner = ONE /\ trace.board_in[i].row = BACK

\* the bonus the rules give the card at index i of board b in the given round
ExpectedBonus(b, i, round) ==
  LET c == b[i]
      Facing(j) == Key(b[j]) = <<c.col, FRONT, Opponent(c.owner)>>
      Advantage(j) == TYPE_MATCHUP[Def(insts, c.instance).card_type]
                                  [Def(insts, b[j].instance).card_type] = 6
  IN  (IF c.row = FRONT /\ Qualifies(b, c.owner) THEN 2 ELSE 0)
      + (IF c.row = FRONT /\ \E j \in 1..Len(b) : Facing(j) /\ Advantage(j) THEN 1 ELSE 0)
      + (IF round = 5 THEN Attack(insts, c.instance) \div 2 ELSE 0)

\* C23: for every card on the board, position_bonus_attack during the attack
\* loop is the sum of the flanking bonus (0 or 2), +1 for a front-row card
\* facing a same-column opposing front-row card it has the 1.5 advantage
\* over, and floor(derived attack / 2) in the final round 5; the sum is there
\* before the first attack and stays unchanged through the round; and every
\* event's position_bonus and raw_attack report it.
C23_PositionBonusSum ==
  ResolveJustRan =>
    LET b0 == trace.board_in
        round == Last(round_history).round_number
        events == Last(round_history).events
    IN  /\ \A i \in 1..Len(b0) :
             /\ b0[i].position_bonus_attack = ExpectedBonus(b0, i, round)
             /\ \A k \in 1..Len(trace.steps) :
                  /\ trace.steps[k].before[i].position_bonus_attack
                       = b0[i].position_bonus_attack
                  /\ trace.steps[k].after[i].position_bonus_attack
                       = b0[i].position_bonus_attack
        /\ \A i \in 1..Len(board) : \E j \in 1..Len(b0) :
             /\ Key(b0[j]) = Key(board[i])
             /\ board[i].position_bonus_attack = b0[j].position_bonus_attack
        /\ Len(events) = Len(Hits)
        /\ \A k \in 1..Len(Hits) :
             /\ events[k].position_bonus = ExpectedBonus(b0, Hits[k].attacker, round)
             /\ events[k].raw_attack
                  = Attack(insts, b0[Hits[k].attacker].instance)
                      + ExpectedBonus(b0, Hits[k].attacker, round)

\* in round 5 a flanking front-row card with the 1.5 advantage over the card
\* it faces attacked with all three bonuses: 2 + 1 + floor(5 / 2)
C23_Witness ==
  /\ ResolveJustRan
  /\ Last(round_history).round_number = 5
  /\ Last(round_history).flanking_applied = ONE
  /\ \E k \in 1..Len(Last(round_history).events) :
       /\ Last(round_history).events[k].attacker_owner = ONE
       /\ Last(round_history).events[k].position_bonus = 5
       /\ Last(round_history).events[k].raw_attack = 10

\* C24: phase_draw leaves each player with a hand of min(5, previous hand size
\* + deck size) cards: the hand as it was, followed by the missing cards from
\* the front of that player's deck in deck order; the rest of the deck keeps
\* its order; a short or empty deck gives fewer cards; no card leaves a hand.
C24_DrawRule ==
  [][ called'.op = "phase_draw"
        => \A p \in Players :
             LET size == IF Len(hand[p]) + Len(deck[p]) < 5
                           THEN Len(hand[p]) + Len(deck[p]) ELSE 5
                 taken == size - Len(hand[p])
             IN  /\ Len(hand'[p]) = size
                 /\ \A k \in 1..Len(hand[p]) : hand'[p][k] = hand[p][k]
                 /\ \A k \in 1..taken : hand'[p][Len(hand[p]) + k] = deck[p][k]
                 /\ Len(deck'[p]) = Len(deck[p]) - taken
                 /\ \A k \in 1..Len(deck'[p]) : deck'[p][k] = deck[p][taken + k] ]_vars

\* after the draw of a later round one player's deck has run out with the hand
\* still short, while the other player holds five cards and a deck
C24_Witness ==
  /\ called.op = "phase_draw"
  /\ current_round >= 3
  /\ \E p \in Players :
       /\ deck[p] = <<>> /\ Len(hand[p]) < 5
       /\ deck[Opponent(p)] # <<>> /\ Len(hand[Opponent(p)]) = 5

\* how often instance id occurs in hand h
Copies(h, id) == Cardinality({ k \in 1..Len(h) : h[k] = id })

RECURSIVE SpentXp(_)
SpentXp(level) == IF level <= 1 THEN 0 ELSE xp_threshold(level - 1) + SpentXp(level - 1)

TotalXp(inst) == inst.xp + SpentXp(inst.level)

\* damage the instance dealt in the last Resolve: the events of its own attacks
RECURSIVE DamageFrom(_, _)
DamageFrom(id, k) ==
  IF k = 0 THEN 0
  ELSE (IF trace.board_in[Hits[k].attacker].instance = id
          THEN Last(round_history).events[k].damage_dealt ELSE 0)
       + DamageFrom(id, k - 1)

DamageBy(id) == DamageFrom(id, Len(Hits))

\* instances of the cards the last Resolve fought with
Fought == { trace.board_in[i].instance : i \in 1..Len(trace.board_in) }

\* instances of the cards on the board with HP left
Survivors == { board[i].instance : i \in { j \in 1..Len(board) : IsAlive(board[j]) } }

\* C26: at Cleanup every instance that survived the round on the board gains
\* XP equal to the damage that instance itself dealt in the round's events
\* plus the survival bonus of 10, and instances that did not fight gain
\* nothing.
C26_SurvivorXp ==
  [][ called'.op = "phase_cleanup"
        => \A id \in DOMAIN insts :
             LET gain == TotalXp(insts'[id]) - TotalXp(insts[id]) IN
             /\ id \in Survivors => gain = DamageBy(id) + 10
             /\ id \notin Fought => gain = 0 ]_vars

\* instances of the cards the last Resolve brought to 0 HP or less
Destroyed == Fought \ Survivors

\* C27: at Cleanup every instance that was destroyed in the round gains XP
\* equal to floor(half of the damage that instance dealt in the round's
\* events), and no other instance gains XP on its behalf.
C27_DestroyedXp ==
  [][ called'.op = "phase_cleanup"
        => \A id \in DOMAIN insts :
             LET gain == TotalXp(insts'[id]) - TotalXp(insts[id]) IN
             /\ id \in Destroyed => gain = DamageBy(id) \div 2
             /\ id \notin Destroyed
                  => gain = (IF id \in Survivors THEN DamageBy(id) + SURVIVAL_XP ELSE 0) ]_vars

\* C28: after any sequence of add_xp calls a card's level is the one its
\* cumulative XP gives: 2 from 100 on, 3 from 250, 4 from 500, 5 from 1000,
\* and never above 5.
C28_LevelByCumulativeXp ==
  called.op = "add_xp" =>
    LET total == called.earned
        level == insts[Learner].level
    IN  /\ level = (IF total >= 1000 THEN 5
                    ELSE IF total >= 500 THEN 4
                    ELSE IF total >= 250 THEN 3
                    ELSE IF total >= 100 THEN 2
                    ELSE 1)
        /\ level <= 5

\* the player who lost the last round, None for a tied round
RoundLoser ==
  IF Last(round_history).round_winner # None
    THEN Opponent(Last(round_history).round_winner) ELSE None

\* C29: at Cleanup of a round that has a loser, each of the loser's cards
\* destroyed in that round has its consecutive_losses increased by 1 and
\* becomes dormant when the counter reaches 3; each of the loser's cards that
\* fought and survived has its counter reset to 0; the round winner's cards,
\* and all cards in a tied round, keep their counters.
C29_LossCounters ==
  [][ called'.op = "phase_cleanup"
        => \A id \in DOMAIN insts :
             LET was == insts[id]
                 now == insts'[id]
             IN  /\ (was.owner = RoundLoser /\ id \in Destroyed)
                      => /\ now.consecutive_losses = was.consecutive_losses + 1
                         /\ now.is_dormant
                              = (was.is_dormant \/ now.consecutive_losses >= 3)
                 /\ (was.owner = RoundLoser /\ id \in Survivors)
                      => now.consecutive_losses = 0
                 /\ was.owner # RoundLoser
                      => /\ now.consecutive_losses = was.consecutive_losses
                         /\ now.is_dormant = was.is_dormant ]_vars

\* C30: in the type matchup table every self-matchup is 1.0 and, for every
\* pair of distinct types A and B, exactly one direction is 1.5 and the
\* reverse direction is 0.75; the 1.5 directions are the cycle
\* Specter -> Behemoth -> Phantom -> Revenant -> Specter. (Quarters: 6 is
\* 1.5, 4 is 1.0, 3 is 0.75.) Every event's multiplier is the table's.
C30_MatchupTable ==
  /\ \A a \in CardType : TYPE_MATCHUP[a][a] = 4
  /\ \A a, b \in CardType :
       a # b => \/ TYPE_MATCHUP[a][b] = 6 /\ TYPE_MATCHUP[b][a] = 3
                \/ TYPE_MATCHUP[b][a] = 6 /\ TYPE_MATCHUP[a][b] = 3
  /\ { <<a, b>> \in CardType \X CardType : TYPE_MATCHUP[a][b] = 6 }
       = { <<SPECTER, BEHEMOTH>>, <<BEHEMOTH, PHANTOM>>, <<PHANTOM, REVENANT>>,
           <<REVENANT, SPECTER>> }
  /\ \A k \in 1..Len(round_history) : \A e \in 1..Len(round_history[k].events) :
       LET ev == round_history[k].events[e] IN
       ev.type_multiplier = TYPE_MATCHUP[ev.attacker_type][ev.defender_type]

\* C31: every phase_resolve appends exactly one RoundResult to round_history
\* and no other operation touches the history; the appended result carries the
\* round number Resolve ran in and the scores right after the round's points,
\* and the round numbers of the history are strictly increasing.
C31_HistoryAppendOnly ==
  [][ /\ called'.op = "phase_resolve"
           => /\ Len(round_history') = Len(round_history) + 1
              /\ SubSeq(round_history', 1, Len(round_history)) = round_history
              /\ Last(round_history').round_number = current_round
              /\ Last(round_history').match_score
                   = [player_1 |-> score'[ONE], player_2 |-> score'[TWO]]
              /\ \A i, j \in 1..Len(round_history') :
                   i < j => round_history'[i].round_number < round_history'[j].round_number
      /\ called'.op # "phase_resolve" => round_history' = round_history ]_vars

\* the third Resolve of a match ran in a round later than the third (a round
\* was skipped on the way) and recorded unequal scores
C31_Witness ==
  /\ called.op = "phase_resolve"
  /\ Len(round_history) = 3
  /\ Last(round_history).round_number > 3
  /\ Last(round_history).match_score.player_1 # Last(round_history).match_score.player_2
  /\ Last(round_history).round_points_awarded > 0

\* C32: when a hit brings a defender carrying on_death VEIL_ECHO to 0 HP or
\* less, the attacker loses floor(defender's derived attack / 2) HP within
\* that event (after its own lifesteal, if it has one); otherwise the
\* attacker loses nothing. The echo adds no event and touches no third card.
C32_VeilEcho ==
  ResolveJustRan =>
    /\ Len(Last(round_history).events) = Len(Hits)
    /\ \A k \in 1..Len(Hits) :
         LET ev == Last(round_history).events[k]
             a == Hits[k].attacker
             t == Hits[k].target
             att == Hits[k].before[a]
             dfd == Hits[k].before[t]
             own == Def(insts, att.instance).ability
             carried == Def(insts, dfd.instance).ability
             drained == IF own.trigger = "on_attack" /\ own.effect = "lifesteal"
                          THEN Min(att.current_hp + (ev.damage_dealt * own.num) \div own.den,
                                   MaxDefense(insts, att.instance))
                          ELSE att.current_hp
             echoes == /\ dfd.current_hp - ev.damage_dealt <= 0
                       /\ carried.trigger = "on_death" /\ carried.effect = "veil_echo"
             half == CHOOSE h \in 0..Attack(insts, dfd.instance) :
                       2 * h <= Attack(insts, dfd.instance)
                         /\ Attack(insts, dfd.instance) < 2 * (h + 1)
         IN  /\ Hits[k].after[a].current_hp = drained - (IF echoes THEN half ELSE 0)
             /\ \A i \in 1..Len(Hits[k].before) :
                  i \notin {a, t} => Hits[k].after[i] = Hits[k].before[i]
             /\ (ev.ability_triggered = "Veil Echo") = echoes

\* a lifesteal attacker that had been hit before destroyed the VEIL_ECHO card,
\* healed and took the echo; an earlier hit on that card had left it alive
C32_Witness ==
  /\ ResolveJustRan
  /\ \E k \in 1..Len(Hits) :
       LET att == Hits[k].before[Hits[k].attacker] IN
       /\ Last(round_history).events[k].ability_triggered = "Veil Echo"
       /\ Def(insts, att.instance).ability.effect = "lifesteal"
       /\ att.current_hp < MaxDefense(insts, att.instance)
       /\ Hits[k].after[Hits[k].attacker].current_hp > att.current_hp - 6
  /\ \E k \in 1..Len(Hits) :
       /\ Last(round_history).events[k].defender_name = "Vorath the Consuming"
       /\ ~Last(round_history).events[k].defender_destroyed

\* C33: an attacker with on_attack LIFESTEAL heals floor(damage_dealt x value)
\* after its hit, capped at its max_defense, and no other attacker heals;
\* every board card has current_hp <= max_defense in every state, and so has
\* every card of every board the attack loop of Resolve passed through.
C33_LifestealCapped ==
  /\ \A i \in 1..Len(board) : board[i].current_hp <= MaxDefense(insts, board[i].instance)
  /\ ResolveJustRan =>
       /\ \A k \in 1..Len(trace.steps) : \A i \in 1..Len(trace.steps[k].after) :
            trace.steps[k].after[i].current_hp
              <= MaxDefense(insts, trace.steps[k].after[i].instance)
       /\ \A k \in 1..Len(Hits) :
            LET ev == Last(round_history).events[k]
                att == Hits[k].before[Hits[k].attacker]
                own == Def(insts, att.instance).ability
                cap == MaxDefense(insts, att.instance)
                value_times_damage == ev.damage_dealt * own.num
                heal == CHOOSE h \in 0..ev.damage_dealt :
                          h * own.den <= value_times_damage
                            /\ value_times_damage < (h + 1) * own.den
                echoed == IF ev.ability_triggered = "Veil Echo"
                            THEN ev.ability_effect_description[3] ELSE 0
                now == Hits[k].after[Hits[k].attacker].current_hp + echoed
            IN  IF own.trigger = "on_attack" /\ own.effect = "lifesteal"
                  THEN now = (IF att.current_hp + heal > cap THEN cap
                              ELSE att.current_hp + heal)
                  ELSE now = att.current_hp

\* in one Resolve a damaged lifesteal attacker healed to less than its
\* max_defense, and the healing of another was cut by the cap
C33_Witness ==
  /\ ResolveJustRan
  /\ \E k \in 1..Len(Hits) :
       LET att == Hits[k].before[Hits[k].attacker] IN
       /\ Def(insts, att.instance).ability.effect = "lifesteal"
       /\ att.current_hp < Hits[k].after[Hits[k].attacker].current_hp
       /\ Hits[k].after[Hits[k].attacker].current_hp < MaxDefense(insts, att.instance)
  /\ \E k \in 1..Len(Hits) :
       LET att == Hits[k].before[Hits[k].attacker] IN
       /\ Def(insts, att.instance).ability.effect = "lifesteal"
       /\ Last(round_history).events[k].damage_dealt >= 4
       /\ Hits[k].after[Hits[k].attacker].current_hp = MaxDefense(insts, att.instance)

\* C34: phase_mana sets each player's mana to min(mana + 1, 8); mana stays
\* within -3..8; a player's mana is negative only after that player's own
\* overdrafting placement of the round (Veil Surge marked) and before the
\* next Cleanup, and never when a Draw or Mana phase starts.
C34_ManaRange ==
  /\ [](\A p \in Players :
          /\ -3 <= mana[p] /\ mana[p] <= 8
          /\ mana[p] < 0 => /\ veil_surge_used[p]
                            /\ placed[p] = "cards"
                            /\ called.op \in {"apply_placement", "phase_reveal",
                                              "phase_resolve"}
          /\ pc \in {"phase_draw", "phase_mana"} => mana[p] >= 0)
  /\ [][ /\ called'.op = "phase_mana"
             => \A p \in Players :
                  mana'[p] = (IF mana[p] + 1 < 8 THEN mana[p] + 1 ELSE 8)
         /\ called'.op = "phase_cleanup"
             => \A p \in Players : mana'[p] >= 0 ]_vars

\* in round 5 a player is in debt after a placement while the other, who has
\* spent nothing in the match, holds the full 8
C34_Witness ==
  /\ called.op = "apply_placement"
  /\ \E p \in Players : mana[p] < 0 /\ mana[Opponent(p)] = 8

\* C35: every card on the board is face-down from its placement until
\* phase_reveal and none is face-down after it; phase_reveal changes only the
\* face_down flags and the phase: cells, HP, bonuses, hands, decks, mana,
\* scores and the round counter stay as they were.
C35_RevealFrame ==
  /\ [](\A i \in 1..Len(board) :
          board[i].face_down = (called.op = "apply_placement"))
  /\ [][ called'.op = "phase_reveal"
           => /\ Len(board') = Len(board)
              /\ \A i \in 1..Len(board) :
                   /\ board[i].face_down
                   /\ board'[i] = [board[i] EXCEPT !.face_down = FALSE]
              /\ phase' = RESOLVE
              /\ UNCHANGED <<hand, deck, mana, score, current_round, insts,
                             veil_surge_used, match_winner, round_history>> ]_vars

\* phase_reveal has flipped the cards of both players, front and back row,
\* one player being in debt
C35_Witness ==
  /\ called.op = "phase_reveal"
  /\ \A p \in Players : \E i, j \in 1..Len(board) :
       /\ board[i].owner = p /\ board[i].row = FRONT
       /\ board[j].owner = p /\ board[j].row = BACK
  /\ \E p \in Players : mana[p] < 0
  /\ \A i \in 1..Len(board) : ~board[i].face_down

\* C36: every card instance has 1 <= level <= 5 and xp >= 0 in every state;
\* no step lowers a level, and one add_xp call raises it by at most 1.
C36_LevelBounds ==
  /\ [](\A id \in DOMAIN insts :
          /\ 1 <= insts[id].level /\ insts[id].level <= 5
          /\ insts[id].xp >= 0)
  /\ [][ \A id \in DOMAIN insts :
           /\ insts'[id].level >= insts[id].level
           /\ called'.op = "add_xp" => insts'[id].level <= insts[id].level + 1 ]_vars

\* the add_xp call that has just brought the instance to level 5: the XP left
\* is less than the amount added
C36_Witness ==
  /\ called.op = "add_xp"
  /\ insts[Learner].level = 5
  /\ insts[Learner].xp < called.amount

\* C37: the board holds at most one card per (column, row, owner) cell, each
\* card in the cell of its own column, row and owner, the column in 0..3 and
\* the owner that of its instance; a placement never changes a card already
\* on the board, and Board.place into an occupied cell fails: the call ends
\* with the error, the occupant stays and the card offered stays in the hand.
C37_OneCardPerCell ==
  /\ [](\A i \in 1..Len(board) :
          /\ IndexAt(board, board[i].col, board[i].row, board[i].owner) = i
          /\ board[i].col \in 0..3
          /\ board[i].row \in Rows
          /\ board[i].owner = insts[board[i].instance].owner)
  /\ [][ called'.op = "apply_placement"
           => /\ Len(board') >= Len(board)
              /\ \A i \in 1..Len(board) : board'[i] = board[i]
              /\ "batch" \in DOMAIN called'
                   => LET batch == called'.batch
                          p == called'.player
                          Taken(k) ==
                            \/ \E i \in 1..Len(board) :
                                 Key(board[i]) = <<batch[k].col, batch[k].row, p>>
                            \/ \E j \in 1..(k - 1) :
                                 <<batch[j].col, batch[j].row>> = <<batch[k].col, batch[k].row>>
                      IN  \A k \in 1..Len(batch) :
                            (Taken(k) /\ \A j \in 1..(k - 1) : ~Taken(j))
                              => /\ pc' = "aborted"
                                 /\ Len(board') = Len(board) + (k - 1)
                                 /\ batch[k].card_instance_id \in Range(hand'[p]) ]_vars

\* a batch applied without validation named the cell of a card that an
\* earlier batch of the round had placed: the call failed, the occupant is
\* still there and the card offered is still in the hand
C37_Witness ==
  /\ called.op = "apply_placement"
  /\ "batch" \in DOMAIN called
  /\ pc = "aborted"
  /\ Len(called.batch) = 1
  /\ called.batch[1].card_instance_id \in Range(hand[called.player])
  /\ \E i \in 1..Len(board) :
       /\ Key(board[i]) = <<called.batch[1].col, called.batch[1].row, called.player>>
       /\ board[i].instance # called.batch[1].card_instance_id

C39_HandAtMostFive ==
  /\ [](\A p \in Players : Len(hand[p]) <= 5)
  /\ [][ called'.op = "phase_draw"
           => \A p \in Players :
                /\ 5 - Len(hand[p]) >= 0
                /\ Len(hand'[p]) >= Len(hand[p])
                /\ Len(hand'[p]) - Len(hand[p]) <= 5 - Len(hand[p]) ]_vars

\* Cleanup has returned survivors to a hand that holds 5 cards again, with
\* cards left in the deck, while the other player's hand is short
C39_Witness ==
  /\ called.op = "phase_cleanup"
  /\ \E p \in Players :
       /\ Len(hand[p]) = 5 /\ deck[p] # <<>>
       /\ \E k \in 1..Len(Last(round_history).events) :
            Last(round_history).events[k].attacker_owner = p
       /\ Len(hand[Opponent(p)]) < 5

\* C40: every match is decided at the latest at the Resolve of round 5: once
\* phase_resolve has run in round 5 the phase is MATCH_OVER and match_winner
\* is set.
C40_DecidedByRoundFive ==
  (called.op = "phase_resolve" /\ current_round >= ROUNDS_PER_MATCH)
    => (phase = MATCH_OVER /\ match_winner # None)

====
